---------------------------- MODULE Spec2Model ----------------------------
(***************************************************************************)
(* A model of the incremental ingestion pipeline of openamnesia: the       *)
(* file-drop connector, the incremental file trawler, normalize_records,   *)
(* the stores' save_events, the daemon loop and the iMessage connector's   *)
(* read of chat.db; further the JSONL spool, the main() of                 *)
(* scripts/run_ingest.py, the hook registry around the pipeline stages,    *)
(* and the in-memory and SQLite stores side by side.                       *)
(*                                                                         *)
(* Conventions.  A file is a string of bytes; "\n" ends a line.  The       *)
(* Python value None is NoneStr for an optional string and NoTs for an     *)
(* optional timestamp.  A timestamp is an integer tick (an instant, so     *)
(* astimezone(UTC) does not change it).  sha256 is modelled as injective   *)
(* on its seed: the digest of a seed is the seed itself, wrapped.  Lines   *)
(* are plain text: the JSON branch of _parse_line is not modelled, so      *)
(* every record has actor "user", no timestamp and no hints unless a       *)
(* specification draws records directly.                                   *)
(***************************************************************************)
EXTENDS Integers, Sequences, FiniteSets, TLC

VARIABLES
    fs,         \* the file system: path -> content, for the paths that exist
    fmeta,      \* path -> [inode, mtime_ns], what stat() reports besides the size
    now,        \* the clock read by utc_now()
    db,         \* the SQLite store's tables (durable)
    mem,        \* the InMemoryStore's dictionaries (in SpecPollTwice: the
                \* message table of chat.db)
    last,       \* the arguments and results of the latest call of a harness
    hist,       \* history of a harness: what was written since the latest call
    cstate,     \* the checkpoint state kept between runs: the map held by the
                \* caller of a connector or trawler; the daemon's state file
    d           \* the daemon process: its fields, position and run results

vars == <<fs, fmeta, now, db, mem, last, hist, cstate, d>>

---------------------------------------------------------------------------
(* Bounds of the model.                                                    *)

MaxFileBytes == 7
MaxWrites == 4
MaxClock == 1
MaxCalls == 3

\* The writes made to the files of the file-drop directory.
MaxDropWrites == 3
MaxBatches == 2

\* The lines written to the daemon's sources, and the starts of its process.
MaxDaemonWrites == 2
MaxStarts == 2

---------------------------------------------------------------------------
(* Python values.                                                          *)

NoneStr == "<None>"
NoTs == -1
NL == "\n"

EmptyMap == [k \in {} |-> 0]

\* dict.get(key, default)
Get(map, key, default) == IF key \in DOMAIN map THEN map[key] ELSE default

\* dict[key] = value
Put(map, key, value) ==
    [k \in (DOMAIN map) \cup {key} |-> IF k = key THEN value ELSE map[k]]

Min(a, b) == IF a <= b THEN a ELSE b

\* s[i:] for a 0-based i
From(s, i) == SubSeq(s, i + 1, Len(s))

Char(s, i) == SubSeq(s, i, i)

\* str.strip() == "": every character is white space
RECURSIVE IsBlank(_)
IsBlank(s) ==
    IF Len(s) = 0 THEN TRUE
    ELSE IF Char(s, 1) \in {" ", NL} THEN IsBlank(From(s, 1)) ELSE FALSE

\* str.lower(), on the letters the model writes
RECURSIVE Lower(_)
Lower(s) ==
    IF Len(s) = 0 THEN ""
    ELSE (IF Char(s, 1) = "A" THEN "a"
          ELSE IF Char(s, 1) = "B" THEN "b"
          ELSE Char(s, 1)) \o Lower(From(s, 1))

\* The elements of a list.
Range(seq) == { seq[i] : i \in DOMAIN seq }

\* needle in value
RECURSIVE Contains(_, _)
Contains(value, needle) ==
    IF Len(needle) > Len(value) THEN FALSE
    ELSE IF SubSeq(value, 1, Len(needle)) = needle THEN TRUE
    ELSE Contains(From(value, 1), needle)

\* str.rstrip("\r\n")
RECURSIVE RStripNewline(_)
RStripNewline(s) ==
    IF Len(s) > 0 /\ Char(s, Len(s)) = NL
    THEN RStripNewline(SubSeq(s, 1, Len(s) - 1))
    ELSE s

\* The number of bytes of s up to and including its first "\n" (Len(s) if none).
RECURSIVE LineEnd(_, _)
LineEnd(s, i) ==
    IF i > Len(s) THEN Len(s)
    ELSE IF Char(s, i) = NL THEN i
    ELSE LineEnd(s, i + 1)

\* fh.readline(n) on the bytes left: at most n bytes, ending after a "\n".
ReadLine(rest, n) == SubSeq(rest, 1, Min(n, LineEnd(rest, 1)))

\* Iterating a text file: its lines, each with its "\n" if it has one; a last
\* line without "\n" is yielded as it is.
RECURSIVE FileLines(_)
FileLines(content) ==
    IF Len(content) = 0 THEN <<>>
    ELSE LET n == LineEnd(content, 1)
         IN  <<SubSeq(content, 1, n)>> \o FileLines(From(content, n))


---------------------------------------------------------------------------
(* Source records and line parsing.                                        *)

NoRecord == [none |-> TRUE]

\* SourceRecord (the tool fields and the metadata map, which no modelled
\* step reads, are left out).
SourceRecord(source, file_path, line_number, content, ts, session_hint, actor) ==
    [source |-> source, file_path |-> file_path, line_number |-> line_number,
     content |-> content, ts |-> ts, session_hint |-> session_hint,
     group_hint |-> NoneStr, actor |-> actor]

\* FileDropConnector._parse_line, for a line that is not a JSON object.
FileDrop_parse_line(source, file_path, line_number, line) ==
    IF IsBlank(line) THEN NoRecord
    ELSE SourceRecord(source, file_path, line_number, line, NoTs, NoneStr, "user")

\* IncrementalFileTrawler._parse_line, for a line that is not a JSON object.
Trawler_parse_line(source, file_path, line_number, line) ==
    IF IsBlank(line) THEN NoRecord
    ELSE SourceRecord(source, file_path, line_number, line, NoTs, NoneStr, "user")

---------------------------------------------------------------------------
(* The configured sources.  Candidates(source) is the sorted list of the   *)
(* paths the source's glob pattern can match.                              *)

Candidates(source) ==
    CASE source = "terminal" -> <<"/t/a.log">>
      [] source = "cursor"   -> <<"/c/a.jsonl", "/c/b.jsonl">>
      [] source = "notes"    -> <<"/n/a.log">>
      [] OTHER               -> <<>>

\* The candidates that are files now, in sorted order.
ExistingFiles(source, files) ==
    SelectSeq(Candidates(source), LAMBDA p : p \in DOMAIN files)

---------------------------------------------------------------------------
(* FileDropConnector.poll                                                  *)

\* The loop over the lines of one file: enumerate(fh, start=1).
\* A variant of the skip test that reads the last counted line again.
FileDropSkipLine_Rereading(idx, last_line) == idx < last_line

\* if idx <= last_line: continue
FileDropSkipLine(idx, last_line) == idx <= last_line

RECURSIVE FileDropReadLines(_, _, _, _, _, _)
FileDropReadLines(source, file_path, lines, idx, last_line, acc) ==
    IF idx > Len(lines) THEN acc
    ELSE IF FileDropSkipLine(idx, last_line)
    THEN FileDropReadLines(source, file_path, lines, idx + 1, last_line, acc)
    ELSE LET record == FileDrop_parse_line(source, file_path, idx,
                                           RStripNewline(lines[idx]))
             recs   == IF record = NoRecord THEN acc.records
                       ELSE Append(acc.records, record)
         IN  FileDropReadLines(source, file_path, lines, idx + 1, last_line,
                               [records |-> recs, processed |-> idx])

\* The loop over the files: new_state.values[file_key] = processed if processed > 0.
RECURSIVE FileDropFiles(_, _, _, _)
FileDropFiles(source, files, paths, acc) ==
    IF paths = <<>> THEN acc
    ELSE LET file_key  == Head(paths)
             last_line == Get(acc.state, file_key, 0)
             r == FileDropReadLines(source, file_key, FileLines(files[file_key]), 1,
                                    last_line, [records |-> <<>>, processed |-> 0])
             st == IF r.processed > 0 THEN Put(acc.state, file_key, r.processed)
                   ELSE acc.state
         IN  FileDropFiles(source, files, Tail(paths),
                           [records |-> acc.records \o r.records, state |-> st])

\* SourcePollResult.from_contracts(records, state, stats): the result the
\* callers read, its state the values of the SourceState as a plain map.
SourcePollResult_from_contracts(records, state, stats) ==
    [records |-> records, state |-> state, stats |-> stats]

\* poll(state) -> SourcePollResult(records, state, stats); every record of a
\* plain line has its file as group, so groups_seen counts the files with records.
FileDropPoll(source, files, state) ==
    LET r == FileDropFiles(source, files, ExistingFiles(source, files),
                           [records |-> <<>>, state |-> state])
    IN  SourcePollResult_from_contracts(
            r.records, r.state,
            [items_seen  |-> Len(r.records),
             groups_seen |-> Cardinality({r.records[i].file_path :
                                          i \in DOMAIN r.records})])

---------------------------------------------------------------------------
(* IncrementalFileTrawler                                                  *)

\* max_line_bytes, a constructor argument (1024 * 1024 by default); the
\* trawler of the model is built with a small one.
MaxLineBytes == 2

\* limit_records = None
NoLimit == -1

\* _checkpoint_for_file: the digest is sha256 of the seed, cut to 16 digits.
Trawler_checkpoint_for_file(file_path, offset, size, mtime_ns, inode) ==
    [offset |-> offset, size |-> size, mtime_ns |-> mtime_ns, inode |-> inode,
     digest |-> "sha16(" \o file_path \o ":" \o ToString(inode) \o ":"
                \o ToString(size) \o ":" \o ToString(mtime_ns) \o ":"
                \o ToString(offset) \o ")"]

\* A variant that ignores the checkpoint and starts every call at byte 0.
TrawlStartOffset_FromZero(cp, inode, size) == 0

\* The start offset chosen from the checkpoint cp (NoRecord when the state
\* has none for the path) and the stat of the file: the checkpoint's offset
\* when the inode is the same and the file has not shrunk, else 0.
TrawlStartOffset(cp, inode, size) ==
    IF cp # NoRecord /\ cp.inode = inode /\ cp.size <= size THEN cp.offset ELSE 0

\* A variant that records, on the emission limit, the byte position where
\* the last emitted line starts.
LimitCheckpoint_LineStart(pos, tell) == pos

\* "offset=fh.tell()" on the emission limit: pos is where the readline of
\* the last emitted line started and tell where it ended.
LimitCheckpoint(pos, tell) == tell

\* The while loop over fh.readline(max_line_bytes + 1), from byte position pos.
\* Returns the records the loop yields, fh.tell() where it ends, and whether
\* it ended on the emission limit.
RECURSIVE TrawlReadLoop(_, _, _, _, _, _, _, _, _)
TrawlReadLoop(source, file_path, content, pos, line_number, start_offset, emitted, limit_records, records) ==
    LET raw_line == ReadLine(From(content, pos), MaxLineBytes + 1)
        tell     == pos + Len(raw_line)
    IN  IF Len(raw_line) = 0
        THEN [records |-> records, tell |-> pos, emitted |-> emitted, limited |-> FALSE]
        ELSE IF Len(raw_line) > MaxLineBytes
        THEN TrawlReadLoop(source, file_path, content, tell, line_number,
                           start_offset, emitted, limit_records, records)
        ELSE LET record == Trawler_parse_line(source, file_path,
                               (line_number + 1) + start_offset,
                               RStripNewline(raw_line))
             IN  IF record = NoRecord
                 THEN TrawlReadLoop(source, file_path, content, tell, line_number + 1,
                                    start_offset, emitted, limit_records, records)
                 ELSE IF limit_records # NoLimit /\ emitted + 1 >= limit_records
                 THEN [records |-> Append(records, record),
                       tell |-> LimitCheckpoint(pos, tell),
                       emitted |-> emitted + 1, limited |-> TRUE]
                 ELSE TrawlReadLoop(source, file_path, content, tell, line_number + 1,
                                    start_offset, emitted + 1, limit_records,
                                    Append(records, record))

\* The loop over the candidate files.  stat_files is the file system when
\* the file is stat'ed and read_files when it is read; acc carries the state
\* map, the records yielded and their count.
RECURSIVE TrawlFiles(_, _, _, _, _, _, _)
TrawlFiles(source, stat_files, read_files, meta, paths, limit_records, acc) ==
    IF paths = <<>> THEN acc
    ELSE LET file_path == Head(paths)
             cp    == Get(acc.state, file_path, NoRecord)
             inode == meta[file_path].inode
             mtime == meta[file_path].mtime_ns
             size  == Len(stat_files[file_path])
             start_offset == TrawlStartOffset(cp, inode, size)
         IN  IF start_offset >= size
             THEN TrawlFiles(source, stat_files, read_files, meta, Tail(paths),
                      limit_records,
                      [acc EXCEPT !.state = Put(acc.state, file_path,
                          Trawler_checkpoint_for_file(file_path, size, size, mtime, inode))])
             ELSE LET r == TrawlReadLoop(source, file_path, read_files[file_path],
                               start_offset, 0, start_offset, acc.emitted,
                               limit_records, <<>>)
                      next == [state   |-> Put(acc.state, file_path,
                                   Trawler_checkpoint_for_file(file_path, r.tell, size,
                                                               mtime, inode)),
                               records |-> acc.records \o r.records,
                               emitted |-> r.emitted]
                  IN  IF r.limited THEN next
                      ELSE TrawlFiles(source, stat_files, read_files, meta, Tail(paths),
                                      limit_records, next)

\* iter_new_records(state, limit_records=...), run to its end: the records
\* it yields and the state map it leaves.
Trawler_iter_new_records(source, stat_files, read_files, meta, state, limit_records) ==
    LET r == TrawlFiles(source, stat_files, read_files, meta,
                        ExistingFiles(source, stat_files), limit_records,
                        [state |-> state, records |-> <<>>, emitted |-> 0])
    IN  [records |-> r.records, state |-> r.state]

---------------------------------------------------------------------------
(* normalize_records                                                       *)

\* stable_event_id: sha256 of "source|file_path|line_number|content".
stable_event_id(source, file_path, line_number, content) ==
    "sha256(" \o source \o "|" \o file_path \o "|" \o ToString(line_number)
    \o "|" \o content \o ")"

\* stable_session_id: sha256 of the seed, cut to 16 digits.
stable_session_id(seed) == "sha16(" \o seed \o ")"

\* A variant that ignores the session hint.
RawSession_FileOnly(record) ==
    stable_session_id(record.source \o ":" \o record.file_path)

\* record.session_hint or stable_session_id(...): None and "" are both falsy.
RawSession(record) ==
    IF record.session_hint # NoneStr /\ record.session_hint # ""
    THEN record.session_hint
    ELSE stable_session_id(record.source \o ":" \o record.file_path)

\* A variant that salts the identifier with the time of normalization and
\* the turn index.
NormalizeOne_Salted(record, clock, turn_index) ==
    [event_id   |-> "sha256(" \o record.source \o "|" \o record.file_path \o "|"
                    \o ToString(record.line_number) \o "|" \o record.content \o "|"
                    \o ToString(clock) \o "|" \o ToString(turn_index) \o ")",
     ts         |-> IF record.ts # NoTs THEN record.ts ELSE clock,
     source     |-> record.source,
     session_id |-> record.source \o ":" \o RawSession(record),
     turn_index |-> turn_index,
     actor      |-> record.actor,
     content    |-> record.content]

\* The Event built for one record: clock is utc_now(), turn_index the
\* session's counter.
NormalizeOne(record, clock, turn_index) ==
    [event_id   |-> stable_event_id(record.source, record.file_path,
                                    record.line_number, record.content),
     ts         |-> IF record.ts # NoTs THEN record.ts ELSE clock,
     source     |-> record.source,
     session_id |-> record.source \o ":" \o RawSession(record),
     turn_index |-> turn_index,
     actor      |-> record.actor,
     content    |-> record.content]

\* A variant with one counter for the whole batch.
RECURSIVE NormalizeLoop_OneCounter(_, _, _, _)
NormalizeLoop_OneCounter(records, clock, turn_counters, events) ==
    IF records = <<>> THEN events
    ELSE NormalizeLoop_OneCounter(Tail(records), clock, turn_counters,
                                  Append(events, NormalizeOne(Head(records), clock,
                                                              Len(events))))

\* The loop of normalize_records: turn_counters is the defaultdict(int).
RECURSIVE NormalizeLoop(_, _, _, _)
NormalizeLoop(records, clock, turn_counters, events) ==
    IF records = <<>> THEN events
    ELSE LET record     == Head(records)
             session_id == record.source \o ":" \o RawSession(record)
             turn_index == Get(turn_counters, session_id, 0)
         IN  NormalizeLoop(Tail(records), clock,
                           Put(turn_counters, session_id, turn_index + 1),
                           Append(events, NormalizeOne(record, clock, turn_index)))

normalize_records(records, clock) == NormalizeLoop(records, clock, EmptyMap, <<>>)

---------------------------------------------------------------------------
(* The stores.  InMemoryStore.events is a dict keyed by event_id, here a   *)
(* function.  The SQLite events table is a set of rows; its uniqueness     *)
(* constraint comes from schema.sql.                                       *)

\* A variant that upserts: a stored Event is replaced by the incoming one.
RECURSIVE InMemory_save_events_Upsert(_, _, _)
InMemory_save_events_Upsert(events_dict, events, inserted) ==
    IF events = <<>> THEN [events |-> events_dict, inserted |-> inserted]
    ELSE LET event == Head(events)
         IN  InMemory_save_events_Upsert(
                 Put(events_dict, event.event_id, event), Tail(events),
                 IF event.event_id \notin DOMAIN events_dict THEN inserted + 1
                 ELSE inserted)

\* InMemoryStore.save_events: the dict after the call and the count returned.
RECURSIVE InMemory_save_events(_, _, _)
InMemory_save_events(events_dict, events, inserted) ==
    IF events = <<>> THEN [events |-> events_dict, inserted |-> inserted]
    ELSE LET event == Head(events)
         IN  IF event.event_id \notin DOMAIN events_dict
             THEN InMemory_save_events(Put(events_dict, event.event_id, event),
                                       Tail(events), inserted + 1)
             ELSE InMemory_save_events(events_dict, Tail(events), inserted)

\* The events table's key (schema.sql: event_id is the primary key).
events_primary_key(row) == row.event_id

\* INSERT OR IGNORE of one row: the table after it and the rows changed.
InsertOrIgnoreEvent(table, row) ==
    IF \E r \in table : events_primary_key(r) = events_primary_key(row)
    THEN [table |-> table, changes |-> 0]
    ELSE [table |-> table \cup {row}, changes |-> 1]

\* executemany over the batch, counting conn.total_changes.
RECURSIVE SQLiteExecuteMany(_, _, _)
SQLiteExecuteMany(table, rows, changes) ==
    IF rows = <<>> THEN [events |-> table, inserted |-> changes]
    ELSE LET r == InsertOrIgnoreEvent(table, Head(rows))
         IN  SQLiteExecuteMany(r.table, Tail(rows), changes + r.changes)

\* SQLiteStore.save_events: the table after the call and the count returned.
SQLite_save_events(table, events) ==
    IF events = <<>> THEN [events |-> table, inserted |-> 0]
    ELSE SQLiteExecuteMany(table, events, 0)

---------------------------------------------------------------------------
(* The environment: writers of the tracked files.                          *)

\* The lines a writer may append: two texts, a blank line, and a line
\* longer than MaxLineBytes.
LineTexts == {"a", "b", " ", "abab"}

EmptyDb == [events |-> {}, source_status |-> EmptyMap, audits |-> <<>>]
EmptyMem == [events |-> EmptyMap]

\* open(path, "a").write(text + "\n"): the file is created if it is missing.
AppendLine(files, path, text) ==
    Put(files, path, Get(files, path, "") \o text \o NL)

\* The writes made to a file so far (its mtime_ns is their count).
Writes(meta, path) == Get(meta, path, [inode |-> 1, mtime_ns |-> 0]).mtime_ns

\* What stat() reports besides the size, after a write: the inode is kept.
Touch(meta, path) ==
    Put(meta, path, [inode    |-> Get(meta, path, [inode |-> 1, mtime_ns |-> 0]).inode,
                     mtime_ns |-> Get(meta, path, [inode |-> 1, mtime_ns |-> 0]).mtime_ns + 1])

ContentsOf(records) == [i \in DOMAIN records |-> records[i].content]

---------------------------------------------------------------------------
(* SpecTrawl: one file under the incremental trawler, as scripts/          *)
(* run_ingest.py drives it: each call trawls with the state kept from the  *)
(* call before, normalizes the records and saves the Events.               *)

TrawlSource == "terminal"
TrawlPath == "/t/a.log"

TrawlHist0 ==
    [appended  |-> <<>>,    \* the lines appended since the latest call
     synced    |-> FALSE,   \* the latest call read the file to its end, and the
                            \* file was only appended to since
     truncated |-> FALSE,   \* the file, tracked in the state, was truncated to
                            \* zero length since the latest call
     stable    |-> TRUE,    \* no byte of the file changed since the first call
     covered   |-> 0,       \* the bytes of the file already read by some call
     emitted   |-> <<>>,    \* the contents of the records the calls yielded
                            \* since the state was last empty
     calls     |-> 0]

InitTrawl ==
    /\ fs = EmptyMap
    /\ fmeta = EmptyMap
    /\ now = 0
    /\ db = EmptyDb
    /\ mem = EmptyMem
    /\ last = [op |-> "none"]
    /\ hist = TrawlHist0
    /\ cstate = EmptyMap
    /\ d = [pc |-> "none"]

\* A writer appends one whole line.
TrawlWrite(text) ==
    /\ Len(Get(fs, TrawlPath, "")) + Len(text) + 1 <= MaxFileBytes
    /\ Writes(fmeta, TrawlPath) < MaxWrites
    /\ fs' = AppendLine(fs, TrawlPath, text)
    /\ fmeta' = Touch(fmeta, TrawlPath)
    /\ hist' = [hist EXCEPT !.appended = Append(@, text),
                            !.stable = (hist.calls = 0)]
    /\ UNCHANGED <<now, db, mem, last, cstate, d>>

\* A writer truncates the file to zero length, keeping its inode.
TrawlTruncate ==
    /\ TrawlPath \in DOMAIN fs
    /\ Len(fs[TrawlPath]) > 0
    /\ hist.calls > 0
    /\ Writes(fmeta, TrawlPath) < MaxWrites
    /\ fs' = Put(fs, TrawlPath, "")
    /\ fmeta' = Touch(fmeta, TrawlPath)
    /\ hist' = [hist EXCEPT !.appended = <<>>,
                            !.truncated = (TrawlPath \in DOMAIN cstate),
                            !.synced = FALSE,
                            !.stable = FALSE,
                            !.covered = 0,
                            !.emitted = <<>>]
    /\ UNCHANGED <<now, db, mem, last, cstate, d>>

\* --reset-state: the next call starts from an empty state.
TrawlResetState ==
    /\ cstate # EmptyMap
    /\ hist.calls < MaxCalls
    /\ cstate' = EmptyMap
    /\ hist' = [hist EXCEPT !.synced = FALSE, !.truncated = FALSE,
                            !.emitted = <<>>]
    /\ UNCHANGED <<fs, fmeta, now, db, mem, last, d>>

\* The offset of the checkpoint a state map holds for the file (NoTs when
\* it holds none).
OffsetIn(state) == Get(state, TrawlPath, [offset |-> NoTs]).offset

\* What a call leaves for the claims to read: its arguments, the file as it
\* was stat'ed and as it was read, the records, and what r.state holds.
TrawlOutcome(limit_records, read_content, r, saved, fresh) ==
    [op |-> "trawl", limit |-> limit_records,
     pre_synced |-> hist.synced, pre_appended |-> hist.appended,
     pre_truncated |-> hist.truncated, pre_covered |-> hist.covered,
     pre_offset |-> OffsetIn(cstate), offset |-> OffsetIn(r.state),
     size |-> Len(Get(fs, TrawlPath, "")),
     content |-> read_content,
     records |-> r.records,
     fresh |-> fresh.records,
     inserted |-> saved.inserted]

\* One call of iter_new_records, then normalize_records and save_events.
TrawlCall(limit_records) ==
    /\ hist.calls < MaxCalls
    /\ LET r      == Trawler_iter_new_records(TrawlSource, fs, fs, fmeta, cstate,
                                              limit_records)
           events == normalize_records(r.records, now)
           saved  == SQLite_save_events(db.events, events)
           size   == Len(Get(fs, TrawlPath, ""))
           tell   == Get(r.state, TrawlPath, [offset |-> 0]).offset
           fresh  == Trawler_iter_new_records(TrawlSource, fs, fs, fmeta, EmptyMap,
                                              NoLimit)
       IN  /\ cstate' = r.state
           /\ db' = [db EXCEPT !.events = saved.events]
           /\ last' = TrawlOutcome(limit_records, Get(fs, TrawlPath, ""), r, saved, fresh)
           /\ hist' = [hist EXCEPT !.appended = <<>>,
                                   !.synced = (TrawlPath \in DOMAIN fs /\ tell = size),
                                   !.truncated = FALSE,
                                   !.covered = IF tell > hist.covered THEN tell
                                               ELSE hist.covered,
                                   !.emitted = @ \o ContentsOf(r.records),
                                   !.calls = @ + 1]
    /\ UNCHANGED <<fs, fmeta, now, mem, d>>

\* A call that races with a writer appending a line: the file is stat'ed
\* before the write, and when it is read the first `visible` bytes of the
\* line and its terminator are in it; the rest follows after the call.
TrawlCallDuringAppend(limit_records, text, visible) ==
    /\ hist.calls < MaxCalls
    /\ TrawlPath \in DOMAIN fs
    /\ Len(fs[TrawlPath]) + Len(text) + 1 <= MaxFileBytes
    /\ Writes(fmeta, TrawlPath) < MaxWrites
    /\ visible \in 1..(Len(text) + 1)
    /\ LET read_fs == Put(fs, TrawlPath,
                          fs[TrawlPath] \o SubSeq(text \o NL, 1, visible))
           r      == Trawler_iter_new_records(TrawlSource, fs, read_fs, fmeta, cstate,
                                              limit_records)
           events == normalize_records(r.records, now)
           saved  == SQLite_save_events(db.events, events)
           tell   == Get(r.state, TrawlPath, [offset |-> 0]).offset
           fresh  == Trawler_iter_new_records(TrawlSource, read_fs, read_fs, fmeta,
                                              EmptyMap, NoLimit)
       IN  /\ cstate' = r.state
           /\ db' = [db EXCEPT !.events = saved.events]
           /\ last' = [TrawlOutcome(limit_records, read_fs[TrawlPath], r, saved, fresh)
                       EXCEPT !.op = "trawl during append"]
           /\ fs' = AppendLine(fs, TrawlPath, text)
           /\ fmeta' = Touch(fmeta, TrawlPath)
           /\ hist' = [hist EXCEPT !.appended = <<>>,
                                   !.synced = (tell = Len(fs[TrawlPath]) + Len(text) + 1),
                                   !.truncated = FALSE,
                                   !.stable = FALSE,
                                   !.covered = IF tell > hist.covered THEN tell
                                               ELSE hist.covered,
                                   !.emitted = @ \o ContentsOf(r.records),
                                   !.calls = @ + 1]
    /\ UNCHANGED <<now, mem, d>>

NextTrawl ==
    \/ \E text \in LineTexts : TrawlWrite(text)
    \/ TrawlTruncate
    \/ TrawlResetState
    \/ \E limit_records \in {NoLimit, 1} : TrawlCall(limit_records)
    \/ \E limit_records \in {NoLimit, 1}, text \in {"a", " "}, visible \in 1..2 :
           TrawlCallDuringAppend(limit_records, text, visible)

SpecTrawl == InitTrawl /\ [][NextTrawl]_vars

---------------------------------------------------------------------------
(* SpecDrop: a directory of two files under the file-drop connector; the   *)
(* caller hands each poll the state the poll before returned.              *)

DropSource == "cursor"

\* What a writer may append to a file of the directory.
DropTexts == {"a", " "}

DropHist0 ==
    [dirty  |-> FALSE,   \* bytes were written since the latest poll
     polled |-> FALSE,   \* cstate is the state a poll returned
     truncated |-> EmptyMap,  \* the files truncated since the latest poll
                              \* while cstate held progress for them, each
                              \* with the content it had
     writes |-> 0,
     calls  |-> 0]

InitDrop ==
    /\ fs = EmptyMap
    /\ fmeta = EmptyMap
    /\ now = 0
    /\ db = EmptyDb
    /\ mem = EmptyMem
    /\ last = [op |-> "none"]
    /\ hist = DropHist0
    /\ cstate = EmptyMap
    /\ d = [pc |-> "none"]

\* A writer appends text to a file, with or without the line terminator.
DropWrite(path, text, newline) ==
    /\ hist.writes < MaxDropWrites
    /\ fs' = Put(fs, path, Get(fs, path, "") \o text \o (IF newline THEN NL ELSE ""))
    /\ hist' = [hist EXCEPT !.dirty = TRUE, !.writes = @ + 1]
    /\ UNCHANGED <<fmeta, now, db, mem, last, cstate, d>>

\* A writer truncates a file to zero length.
DropTruncate(path) ==
    /\ hist.writes < MaxDropWrites
    /\ path \in DOMAIN fs
    /\ Len(fs[path]) > 0
    /\ fs' = Put(fs, path, "")
    /\ hist' = [hist EXCEPT !.dirty = TRUE, !.writes = @ + 1,
                            !.truncated = IF path \in DOMAIN cstate
                                             /\ path \notin DOMAIN @
                                          THEN Put(@, path, fs[path]) ELSE @]
    /\ UNCHANGED <<fmeta, now, db, mem, last, cstate, d>>

\* The caller forgets the state: the next poll is given {}.
DropResetState ==
    /\ cstate # EmptyMap
    /\ hist.calls < MaxCalls
    /\ cstate' = EmptyMap
    /\ hist' = [hist EXCEPT !.polled = FALSE, !.truncated = EmptyMap]
    /\ UNCHANGED <<fs, fmeta, now, db, mem, last, d>>

\* connector.poll(state); the caller keeps the state returned.
DropPoll ==
    /\ hist.calls < MaxCalls
    /\ LET r == FileDropPoll(DropSource, fs, cstate)
       IN  /\ cstate' = r.state
           /\ last' = [op |-> "poll", pre_state |-> cstate, pre_dirty |-> hist.dirty,
                       pre_polled |-> hist.polled,
                       pre_truncated |-> hist.truncated, files |-> fs,
                       records |-> r.records,
                       state |-> r.state, stats |-> r.stats]
    /\ hist' = [hist EXCEPT !.dirty = FALSE, !.polled = TRUE,
                            !.truncated = EmptyMap, !.calls = @ + 1]
    /\ UNCHANGED <<fs, fmeta, now, db, mem, d>>

NextDrop ==
    \/ \E path \in {"/c/a.jsonl", "/c/b.jsonl"}, text \in DropTexts, newline \in BOOLEAN :
           DropWrite(path, text, newline)
    \/ \E path \in {"/c/a.jsonl", "/c/b.jsonl"} : DropTruncate(path)
    \/ DropResetState
    \/ DropPoll

SpecDrop == InitDrop /\ [][NextDrop]_vars

-----------------------------------------------------------------------------
(* SpecPollTwice: a connector is polled, then polled again with the dict   *)
(* the first call was given, the sources unchanged.  The file-drop         *)
(* connector over its directory, the iMessage connector over chat.db.      *)

MaxPollWrites == 2

\* options["limit"] of the iMessage connector (500 by default); the
\* connector of the model is configured with a small one.
IMessageLimit == 1

IMessageDbPath == "/m/chat.db"

\* message.text of a row: NULL is NoneStr.
IMessageTexts == {"a", " ", NoneStr}

\* A variant in which the connector writes to the dict it was given.
NewStateIsACopy_Aliased == FALSE

\* "dict(state)": the dict the connector writes its progress to is a new
\* one, holding the items of the dict it was given.
NewStateIsACopy == TRUE

\* The items of the caller's dict when poll(state) has returned new_state:
\* the writes reached it only if they were made to that very dict.
ArgumentAfter(state, new_state) == IF NewStateIsACopy THEN state ELSE new_state

\* A variant whose SELECT takes the rows from the watermark on.
IMessageSelect_Inclusive(messages, min_rowid_exclusive, limit) ==
    LET rows == [i \in DOMAIN messages |-> [rowid |-> i, text |-> messages[i]]]
        kept(row) == /\ row.rowid >= min_rowid_exclusive
                     /\ row.text # NoneStr
                     /\ ~IsBlank(row.text)
        sel  == SelectSeq(rows, kept)
    IN  SubSeq(sel, 1, Min(limit, Len(sel)))

\* The SELECT of ReadMessagesOp.run: the rows with rowid > min_rowid_exclusive
\* whose text is neither NULL nor blank, by rowid, at most limit of them.
\* (The rowid of a row is its index in the table; the joins, which add the
\* columns of the handle and the chat, are left out.)
IMessageSelect(messages, min_rowid_exclusive, limit) ==
    LET rows == [i \in DOMAIN messages |-> [rowid |-> i, text |-> messages[i]]]
        kept(row) == /\ row.rowid > min_rowid_exclusive
                     /\ row.text # NoneStr
                     /\ ~IsBlank(row.text)
        sel  == SelectSeq(rows, kept)
    IN  SubSeq(sel, 1, Min(limit, Len(sel)))

RECURSIVE MaxRowid(_, _)
MaxRowid(rows, max_rowid) ==
    IF rows = <<>> THEN max_rowid
    ELSE MaxRowid(Tail(rows), IF Head(rows).rowid > max_rowid THEN Head(rows).rowid
                              ELSE max_rowid)

\* ReadMessagesOp.run(input_data), the database file being there: the
\* messages and "state = dict(input_data.state); state['last_rowid'] = max_rowid".
ReadMessagesOp_run(messages, state, min_rowid_exclusive, limit) ==
    LET rows      == IMessageSelect(messages, min_rowid_exclusive, limit)
        max_rowid == MaxRowid(rows, min_rowid_exclusive)
    IN  [messages |-> rows, state |-> Put(state, "last_rowid", max_rowid),
         max_rowid_seen |-> max_rowid]

\* IMessageConnector._poll_sqlite(state)
IMessage_poll_sqlite(source, messages, state) ==
    LET last_rowid == Get(state, "last_rowid", 0)
        output  == ReadMessagesOp_run(messages, state, last_rowid, IMessageLimit)
        records == [i \in DOMAIN output.messages |->
                      [SourceRecord(source, IMessageDbPath, output.messages[i].rowid,
                                    output.messages[i].text, NoTs, "unknown_chat",
                                    "contact")
                       EXCEPT !.group_hint = "unknown_chat"]]
    IN  SourcePollResult_from_contracts(
            records, output.state,
            [items_seen |-> Len(records),
             groups_seen |-> IF records = <<>> THEN 0 ELSE 1])

\* The caller's two dicts, one per connector.
PollTwiceState0 == [file_drop |-> EmptyMap, imessage |-> EmptyMap]

InitPollTwice ==
    /\ fs = EmptyMap
    /\ fmeta = EmptyMap
    /\ now = 0
    /\ db = EmptyDb
    /\ mem = <<>>                 \* the message table of chat.db
    /\ last = [op |-> "none"]
    /\ hist = [writes |-> 0, returned |-> EmptyMap, backlog |-> FALSE]
    /\ cstate = PollTwiceState0
    /\ d = [pc |-> "none"]

\* A writer appends text to a file, with or without the line terminator.
PollTwiceWrite(path, text, newline) ==
    /\ hist.writes < MaxPollWrites
    /\ fs' = Put(fs, path, Get(fs, path, "") \o text \o (IF newline THEN NL ELSE ""))
    /\ hist' = [hist EXCEPT !.writes = @ + 1]
    /\ last' = [op |-> "none"]
    /\ UNCHANGED <<fmeta, now, db, mem, cstate, d>>

\* Messages stores a row in chat.db.
PollTwiceInsert(text) ==
    /\ hist.writes < MaxPollWrites
    /\ mem' = Append(mem, text)
    /\ hist' = [hist EXCEPT !.writes = @ + 1]
    /\ last' = [op |-> "none"]
    /\ UNCHANGED <<fs, fmeta, now, db, cstate, d>>

\* The caller polls the file-drop connector with its dict and keeps the
\* state returned, as the daemon does.
PollTwiceFileDrop ==
    /\ LET r == FileDropPoll(DropSource, fs, cstate.file_drop)
       IN  /\ cstate' = [cstate EXCEPT !.file_drop = r.state]
           /\ last' = [op |-> "poll", connector |-> "file_drop",
                       argument |-> cstate.file_drop,
                       argument_after |-> ArgumentAfter(cstate.file_drop, r.state),
                       first |-> r, second |-> r]
    /\ UNCHANGED <<fs, fmeta, now, db, mem, hist, d>>

\* The rowids of the records of a poll result.
ReturnedRowids(r) == {r.records[i].line_number : i \in DOMAIN r.records}

\* The same for the iMessage connector.  hist.returned counts, per rowid,
\* the polls of this chain that returned the message; hist.backlog tells
\* that some poll found more than the limit waiting.
PollTwiceIMessage ==
    /\ LET r == IMessage_poll_sqlite("imessage", mem, cstate.imessage)
           waiting == IMessageSelect(mem, Get(cstate.imessage, "last_rowid", 0),
                                     Len(mem))
       IN  /\ cstate' = [cstate EXCEPT !.imessage = r.state]
           /\ last' = [op |-> "poll", connector |-> "imessage",
                       argument |-> cstate.imessage,
                       argument_after |-> ArgumentAfter(cstate.imessage, r.state),
                       first |-> r, second |-> r]
           /\ hist' = [hist EXCEPT
                         !.returned = [i \in DOMAIN @ \cup ReturnedRowids(r) |->
                                         Get(@, i, 0)
                                         + (IF i \in ReturnedRowids(r) THEN 1 ELSE 0)],
                         !.backlog = @ \/ Len(waiting) > IMessageLimit]
    /\ UNCHANGED <<fs, fmeta, now, db, mem, d>>

\* The connector just polled is polled again with the dict the first call
\* was given, nothing having been written in between.
PollTwiceAgain ==
    /\ last.op = "poll"
    /\ LET r == IF last.connector = "file_drop"
                THEN FileDropPoll(DropSource, fs, last.argument_after)
                ELSE IMessage_poll_sqlite("imessage", mem, last.argument_after)
       IN  last' = [last EXCEPT !.op = "again", !.second = r]
    /\ UNCHANGED <<fs, fmeta, now, db, mem, hist, cstate, d>>

NextPollTwice ==
    \/ \E path \in {"/c/a.jsonl", "/c/b.jsonl"}, text \in DropTexts, newline \in BOOLEAN :
           PollTwiceWrite(path, text, newline)
    \/ \E text \in IMessageTexts : PollTwiceInsert(text)
    \/ PollTwiceFileDrop
    \/ PollTwiceIMessage
    \/ PollTwiceAgain

SpecPollTwice == InitPollTwice /\ [][NextPollTwice]_vars

---------------------------------------------------------------------------
(* SpecPipeline: batches of records are normalized and the Events saved,   *)
(* to an InMemoryStore or to a SQLiteStore.                                *)

\* The records a batch is drawn from: two of them agree on source, file
\* path, line number and content and differ in ts, session hint and actor.
PipeRecords ==
    { SourceRecord("terminal", "/t/a.log", 1, "a", NoTs, NoneStr, "user"),
      SourceRecord("terminal", "/t/a.log", 1, "a", 5, "s", "bot"),
      SourceRecord("terminal", "/t/a.log", 2, "a", NoTs, "s", "user") }

\* The batches: empty, of one record, of two records.
PipeBatches ==
    {<<>>} \cup { <<r>> : r \in PipeRecords }
           \cup { <<r, s>> : r \in PipeRecords, s \in PipeRecords }

RecordKey(record) ==
    <<record.source, record.file_path, record.line_number, record.content>>

PipeHist0 ==
    [seen    |-> {},   \* <<record, event_id>> of every record normalized
     batches |-> 0]

InitPipeline ==
    /\ fs = EmptyMap
    /\ fmeta = EmptyMap
    /\ now = 0
    /\ db = EmptyDb
    /\ mem = EmptyMem
    /\ last = [op |-> "none"]
    /\ hist = PipeHist0
    /\ cstate = EmptyMap
    /\ d = [pc |-> "idle", events |-> <<>>]

\* Time passes: utc_now() returns a later instant.
PipeTick ==
    /\ now < MaxClock
    /\ now' = now + 1
    /\ UNCHANGED <<fs, fmeta, db, mem, last, hist, cstate, d>>

\* events = normalize_records(records)
PipeNormalize(records) ==
    /\ hist.batches < MaxBatches
    /\ LET events == normalize_records(records, now)
       IN  /\ d' = [pc |-> "normalized", events |-> events]
           /\ last' = [op |-> "normalize", records |-> records, events |-> events]
           /\ hist' = [hist EXCEPT
                         !.seen = @ \cup { <<records[i], events[i].event_id>> :
                                           i \in DOMAIN records },
                         !.batches = @ + 1]
    /\ UNCHANGED <<fs, fmeta, now, db, mem, cstate>>

\* InMemoryStore.save_events(events); the same batch may be saved again.
PipeSaveMemory ==
    /\ d.pc = "normalized"
    /\ LET r == InMemory_save_events(mem.events, d.events, 0)
       IN  /\ mem' = [mem EXCEPT !.events = r.events]
           /\ last' = [op |-> "save_memory", events |-> d.events,
                       pre |-> mem.events, inserted |-> r.inserted,
                       again |-> (last.op = "save_memory" /\ last.events = d.events)]
    /\ UNCHANGED <<fs, fmeta, now, db, hist, cstate, d>>

\* SQLiteStore.save_events(events); the same batch may be saved again.
PipeSaveSQLite ==
    /\ d.pc = "normalized"
    /\ LET r == SQLite_save_events(db.events, d.events)
       IN  /\ db' = [db EXCEPT !.events = r.events]
           /\ last' = [op |-> "save_sqlite", events |-> d.events,
                       pre |-> db.events, inserted |-> r.inserted,
                       again |-> (last.op = "save_sqlite" /\ last.events = d.events)]
    /\ UNCHANGED <<fs, fmeta, now, mem, hist, cstate, d>>

NextPipeline ==
    \/ PipeTick
    \/ \E records \in PipeBatches : PipeNormalize(records)
    \/ PipeSaveMemory
    \/ PipeSaveSQLite

SpecPipeline == InitPipeline /\ [][NextPipeline]_vars

---------------------------------------------------------------------------
(* SpecSessions: batches of records are normalized, the Events grouped     *)
(* into Sessions and the Sessions saved, to an InMemoryStore or to a       *)
(* SQLiteStore.                                                            *)

MaxSessBatches == 2

\* "content[:160]"
SummaryChars == 160

\* A content of 161 characters.
LongText == "xxxxxxxxxxxxxxxxxxxxxxxxxxxxxxxxxxxxxxxxxxxxxxxxxxxxxxxxxxxxxxxxxxxxxxxxxxxxxxxxyyyyyyyyyyyyyyyyyyyyyyyyyyyyyyyyyyyyyyyyyyyyyyyyyyyyyyyyyyyyyyyyyyyyyyyyyyyyyyyyz"

\* sorted(..., key=(ts, turn_index)) places item before the first element
\* whose key is greater: the sort is stable.
RECURSIVE InsertByTsTurn(_, _)
InsertByTsTurn(ordered, item) ==
    IF ordered = <<>> THEN <<item>>
    ELSE LET head == Head(ordered)
         IN  IF \/ item.ts < head.ts
                \/ (item.ts = head.ts /\ item.turn_index < head.turn_index)
             THEN <<item>> \o ordered
             ELSE <<head>> \o InsertByTsTurn(Tail(ordered), item)

RECURSIVE SortedByTsTurn(_, _)
SortedByTsTurn(session_events, ordered) ==
    IF session_events = <<>> THEN ordered
    ELSE SortedByTsTurn(Tail(session_events),
                        InsertByTsTurn(ordered, Head(session_events)))

\* The keys of "grouped", in the order of their first appearance.
RECURSIVE GroupKeys(_, _)
GroupKeys(events, keys) ==
    IF events = <<>> THEN keys
    ELSE LET key == <<Head(events).source, Head(events).session_id>>
         IN  GroupKeys(Tail(events),
                       IF \E i \in DOMAIN keys : keys[i] = key THEN keys
                       ELSE Append(keys, key))

\* grouped[(source, session_id)]: the Events of the key, in batch order.
GroupOf(events, key) ==
    LET member(event) == <<event.source, event.session_id>> = key
    IN  SelectSeq(events, member)

\* A variant that takes the summary and the start from the member that is
\* first in the batch.
SessionOf_BatchOrder(events, key) ==
    LET ordered == GroupOf(events, key)
    IN  [session_key |-> key[2],
         session_id  |-> key[2],
         source      |-> key[1],
         start_ts    |-> ordered[1].ts,
         end_ts      |-> ordered[Len(ordered)].ts,
         summary     |-> SubSeq(ordered[1].content, 1,
                                Min(SummaryChars, Len(ordered[1].content))),
         event_count |-> Len(ordered)]

\* The Session built for one key of "grouped".
SessionOf(events, key) ==
    LET ordered == SortedByTsTurn(GroupOf(events, key), <<>>)
    IN  [session_key |-> key[2],
         session_id  |-> key[2],
         source      |-> key[1],
         start_ts    |-> ordered[1].ts,
         end_ts      |-> ordered[Len(ordered)].ts,
         summary     |-> SubSeq(ordered[1].content, 1,
                                Min(SummaryChars, Len(ordered[1].content))),
         event_count |-> Len(ordered)]

sessionize_events(events) ==
    LET keys == GroupKeys(events, <<>>)
    IN  [i \in DOMAIN keys |-> SessionOf(events, keys[i])]

\* A variant that replaces the stored Session by the incoming one.
RECURSIVE InMemory_save_sessions_Upsert(_, _, _)
InMemory_save_sessions_Upsert(sessions_dict, sessions, inserted) ==
    IF sessions = <<>> THEN [sessions |-> sessions_dict, inserted |-> inserted]
    ELSE LET session == Head(sessions)
         IN  InMemory_save_sessions_Upsert(
                 Put(sessions_dict, session.session_key, session), Tail(sessions),
                 IF session.session_key \notin DOMAIN sessions_dict THEN inserted + 1
                 ELSE inserted)

\* InMemoryStore.save_sessions: the dict after the call and the count returned.
RECURSIVE InMemory_save_sessions(_, _, _)
InMemory_save_sessions(sessions_dict, sessions, inserted) ==
    IF sessions = <<>> THEN [sessions |-> sessions_dict, inserted |-> inserted]
    ELSE LET session == Head(sessions)
         IN  IF session.session_key \notin DOMAIN sessions_dict
             THEN InMemory_save_sessions(Put(sessions_dict, session.session_key, session),
                                         Tail(sessions), inserted + 1)
             ELSE InMemory_save_sessions(sessions_dict, Tail(sessions), inserted)

\* The sessions table's key (schema.sql: session_key is the primary key).
sessions_primary_key(row) == row.session_key

\* INSERT OR IGNORE of one row: the table after it and the rows changed.
InsertOrIgnoreSession(table, row) ==
    IF \E r \in table : sessions_primary_key(r) = sessions_primary_key(row)
    THEN [table |-> table, changes |-> 0]
    ELSE [table |-> table \cup {row}, changes |-> 1]

\* executemany over the batch, counting conn.total_changes.
RECURSIVE SQLiteExecuteManySessions(_, _, _)
SQLiteExecuteManySessions(table, rows, changes) ==
    IF rows = <<>> THEN [sessions |-> table, inserted |-> changes]
    ELSE LET r == InsertOrIgnoreSession(table, Head(rows))
         IN  SQLiteExecuteManySessions(r.table, Tail(rows), changes + r.changes)

\* SQLiteStore.save_sessions: the table after the call and the count returned.
SQLite_save_sessions(table, sessions) ==
    IF sessions = <<>> THEN [sessions |-> table, inserted |-> 0]
    ELSE SQLiteExecuteManySessions(table, sessions, 0)

\* The records a batch is drawn from: three carry the session hint "s", with
\* timestamps that do not follow the batch order, and one has neither hint
\* nor timestamp.
SessRecords ==
    { SourceRecord("terminal", "/t/a.log", 1, "a", 2, "s", "user"),
      SourceRecord("terminal", "/t/a.log", 2, "b", 1, "s", "bot"),
      SourceRecord("terminal", "/t/b.log", 1, "c", 2, "s", "user"),
      SourceRecord("terminal", "/t/a.log", 3, LongText, NoTs, NoneStr, "user") }

\* The batches: of no record, of one, of two (the same record twice
\* included) and of three different records.
SessBatches ==
    {<<>>} \cup { <<r>> : r \in SessRecords }
           \cup { <<r, s>> : r \in SessRecords, s \in SessRecords }
           \cup { b \in { <<r, s, u>> : r \in SessRecords, s \in SessRecords,
                                         u \in SessRecords } :
                    Cardinality(Range(b)) = 3 }

InitSessions ==
    /\ fs = EmptyMap
    /\ fmeta = EmptyMap
    /\ now = 0
    /\ db = [sessions |-> {}]
    /\ mem = [sessions |-> EmptyMap]
    /\ last = [op |-> "none"]
    /\ hist = [batches |-> 0, first |-> EmptyMap]
    /\ cstate = EmptyMap
    /\ \E store \in {"memory", "sqlite"} :     \* the store the process was built with
           d = [pc |-> "idle", store |-> store, events |-> <<>>, sessions |-> <<>>]

\* Time passes: utc_now() returns a later instant.
SessTick ==
    /\ now < MaxClock
    /\ now' = now + 1
    /\ UNCHANGED <<fs, fmeta, db, mem, last, hist, cstate, d>>

\* events = normalize_records(records)
SessNormalize(records) ==
    /\ hist.batches < MaxSessBatches
    /\ LET events == normalize_records(records, now)
       IN  /\ d' = [d EXCEPT !.pc = "normalized", !.events = events, !.sessions = <<>>]
           /\ last' = [op |-> "normalize", records |-> records, events |-> events]
    /\ hist' = [hist EXCEPT !.batches = @ + 1]
    /\ UNCHANGED <<fs, fmeta, now, db, mem, cstate>>

\* sessions = sessionize_events(events)
SessSessionize ==
    /\ d.pc = "normalized"
    /\ LET sessions == sessionize_events(d.events)
       IN  /\ d' = [d EXCEPT !.pc = "sessionized", !.sessions = sessions]
           /\ last' = [op |-> "sessionize", events |-> d.events, sessions |-> sessions]
    /\ UNCHANGED <<fs, fmeta, now, db, mem, hist, cstate>>

\* hist.first keeps, per store and session key, the Session first stored.
FirstStored(first, store, stored) ==
    [k \in DOMAIN first \cup {<<store, s.session_key>> : s \in stored} |->
        IF k \in DOMAIN first THEN first[k]
        ELSE CHOOSE s \in stored : <<store, s.session_key>> = k]

\* InMemoryStore.save_sessions(sessions)
SessSaveMemory ==
    /\ d.pc = "sessionized"
    /\ d.store = "memory"
    /\ LET r == InMemory_save_sessions(mem.sessions, d.sessions, 0)
       IN  /\ mem' = [mem EXCEPT !.sessions = r.sessions]
           /\ last' = [op |-> "save_memory", sessions |-> d.sessions,
                       pre |-> Range(mem.sessions), post |-> Range(r.sessions),
                       inserted |-> r.inserted]
           /\ hist' = [hist EXCEPT !.first = FirstStored(@, "memory", Range(r.sessions))]
    /\ UNCHANGED <<fs, fmeta, now, db, cstate, d>>

\* SQLiteStore.save_sessions(sessions)
SessSaveSQLite ==
    /\ d.pc = "sessionized"
    /\ d.store = "sqlite"
    /\ LET r == SQLite_save_sessions(db.sessions, d.sessions)
       IN  /\ db' = [db EXCEPT !.sessions = r.sessions]
           /\ last' = [op |-> "save_sqlite", sessions |-> d.sessions,
                       pre |-> db.sessions, post |-> r.sessions,
                       inserted |-> r.inserted]
           /\ hist' = [hist EXCEPT !.first = FirstStored(@, "sqlite", r.sessions)]
    /\ UNCHANGED <<fs, fmeta, now, mem, cstate, d>>

NextSessions ==
    \/ SessTick
    \/ \E records \in SessBatches : SessNormalize(records)
    \/ SessSessionize
    \/ SessSaveMemory
    \/ SessSaveSQLite

SpecSessions == InitSessions /\ [][NextSessions]_vars

\* _contains_any(value, needles)
ContainsAny(value, needles) == \E i \in DOMAIN needles : Contains(value, needles[i])

---------------------------------------------------------------------------
(* SpecFilter: predicates are added to a SourceFilterPipeline, the         *)
(* pipeline is applied to a batch of records, and a pipeline holding the   *)
(* same predicates in another order is applied to the same batch.          *)

MaxFilters == 3

\* str.strip(), on spaces and line terminators
RECURSIVE LStrip(_)
LStrip(s) ==
    IF Len(s) > 0 /\ Char(s, 1) \in {" ", NL} THEN LStrip(From(s, 1)) ELSE s

RECURSIVE RStrip(_)
RStrip(s) ==
    IF Len(s) > 0 /\ Char(s, Len(s)) \in {" ", NL}
    THEN RStrip(SubSeq(s, 1, Len(s) - 1)) ELSE s

Strip(s) == LStrip(RStrip(s))

\* _normalized_terms(values): the items that are not blank, lowered and
\* stripped.
RECURSIVE normalized_terms(_)
normalized_terms(values) ==
    IF values = <<>> THEN <<>>
    ELSE (IF Head(values) # "" /\ Strip(Head(values)) # ""
          THEN <<Strip(Lower(Head(values)))>> ELSE <<>>)
         \o normalized_terms(Tail(values))

\* "record.group_hint or record.session_hint or ''"
GroupValue(record) ==
    IF record.group_hint # NoneStr /\ record.group_hint # "" THEN record.group_hint
    ELSE IF record.session_hint # NoneStr /\ record.session_hint # ""
         THEN record.session_hint
         ELSE ""

\* A predicate is the filter the make_..._filter function of its kind
\* returns, for the terms or the bound it was made with (bound NoTs: None).
TermFilter(kind, needles) == [kind |-> kind, needles |-> needles, bound |-> NoTs]
TimeFilter(kind, bound) == [kind |-> kind, needles |-> <<>>, bound |-> bound]

\* predicate(record): the _predicate closure of each kind.
Accepts(predicate, record) ==
    LET lowered == normalized_terms(predicate.needles)
    IN  CASE predicate.kind = "include_contains" ->
                 lowered = <<>> \/ ContainsAny(Lower(record.content), lowered)
          [] predicate.kind = "exclude_contains" ->
                 lowered = <<>> \/ ~ContainsAny(Lower(record.content), lowered)
          [] predicate.kind = "include_groups" ->
                 lowered = <<>> \/ ContainsAny(Lower(GroupValue(record)), lowered)
          [] predicate.kind = "exclude_groups" ->
                 lowered = <<>> \/ ~ContainsAny(Lower(GroupValue(record)), lowered)
          [] predicate.kind = "include_actors" ->
                 lowered = <<>> \/ ContainsAny(Lower(record.actor), lowered)
          [] predicate.kind = "exclude_actors" ->
                 lowered = <<>> \/ ~ContainsAny(Lower(record.actor), lowered)
          [] predicate.kind = "since" ->
                 IF predicate.bound = NoTs THEN TRUE
                 ELSE IF record.ts = NoTs THEN FALSE
                 ELSE record.ts >= predicate.bound
          [] predicate.kind = "until" ->
                 IF predicate.bound = NoTs THEN TRUE
                 ELSE IF record.ts = NoTs THEN FALSE
                 ELSE record.ts <= predicate.bound

\* A variant that asks the first predicate only.
AllAccept_FirstOnly(filters, record) ==
    filters = <<>> \/ Accepts(Head(filters), record)

\* all(predicate(record) for predicate in self.filters): the predicates are
\* asked in order, up to the first that rejects.
RECURSIVE AllAccept(_, _)
AllAccept(filters, record) ==
    IF filters = <<>> THEN TRUE
    ELSE IF ~Accepts(Head(filters), record) THEN FALSE
    ELSE AllAccept(Tail(filters), record)

\* The loop of SourceFilterPipeline.apply.
RECURSIVE ApplyLoop(_, _, _)
ApplyLoop(filters, records, acc) ==
    IF records = <<>> THEN acc
    ELSE ApplyLoop(filters, Tail(records),
                   IF AllAccept(filters, Head(records))
                   THEN [acc EXCEPT !.kept = Append(@, Head(records))]
                   ELSE [acc EXCEPT !.dropped = @ + 1])

\* SourceFilterPipeline.apply(records): (kept, dropped).
SourceFilterPipeline_apply(filters, records) ==
    IF filters = <<>> THEN [kept |-> records, dropped |-> 0]
    ELSE ApplyLoop(filters, records, [kept |-> <<>>, dropped |-> 0])

\* The predicates a pipeline is built from: on the content, on the group,
\* on the timestamp, one of them made with a blank term.
FilterPool ==
    { TermFilter("include_contains", <<"A">>),
      TermFilter("include_groups", <<"g">>),
      TermFilter("exclude_groups", <<"h ">>),
      TermFilter("exclude_groups", <<" ">>),
      TimeFilter("since", 1),
      TimeFilter("until", 1) }

\* The records of a batch: with and without timestamp, with a group hint,
\* with a session hint only, with neither.
FilterRecords ==
    { [SourceRecord("notes", "/n/a", 1, "a", 1, NoneStr, "user") EXCEPT !.group_hint = "g"],
      SourceRecord("notes", "/n/a", 2, "b", NoTs, NoneStr, "user"),
      SourceRecord("notes", "/n/a", 3, "A", 2, "g", "bot"),
      [SourceRecord("notes", "/n/a", 4, "a", 0, "g", "user") EXCEPT !.group_hint = "h"] }

\* The batches: of no record, of one, of two different records.
FilterBatches ==
    {<<>>} \cup { <<r>> : r \in FilterRecords }
           \cup { b \in { <<r, s>> : r \in FilterRecords, s \in FilterRecords } :
                    b[1] # b[2] }

\* The list with the elements at i and j exchanged.
Swapped(seq, i, j) ==
    [k \in DOMAIN seq |-> IF k = i THEN seq[j] ELSE IF k = j THEN seq[i] ELSE seq[k]]

MaxApplies == 1

InitFilter ==
    /\ fs = EmptyMap
    /\ fmeta = EmptyMap
    /\ now = 0
    /\ db = EmptyDb
    /\ mem = EmptyMem
    /\ last = [op |-> "none"]
    /\ hist = [applies |-> 0]
    /\ cstate = EmptyMap
    /\ d = [pc |-> "pipeline", filters |-> <<>>]

\* pipeline.add(record_filter)
FilterAdd(predicate) ==
    /\ Len(d.filters) < MaxFilters
    /\ d' = [d EXCEPT !.filters = Append(@, predicate)]
    /\ last' = [op |-> "none"]
    /\ UNCHANGED <<fs, fmeta, now, db, mem, hist, cstate>>

\* kept, dropped = pipeline.apply(records)
FilterApplyCall(records) ==
    /\ hist.applies < MaxApplies
    /\ hist' = [hist EXCEPT !.applies = @ + 1]
    /\ LET r == SourceFilterPipeline_apply(d.filters, records)
       IN  last' = [op |-> "apply", filters |-> d.filters, records |-> records,
                    kept |-> r.kept, dropped |-> r.dropped,
                    order |-> d.filters, kept_reordered |-> r.kept]
    /\ UNCHANGED <<fs, fmeta, now, db, mem, cstate, d>>

\* A second pipeline is built by adding the same predicates with two of
\* them exchanged, and applied to the records of the call before.
FilterApplyReordered(i, j) ==
    /\ last.op = "apply"
    /\ i < j
    /\ j <= Len(last.filters)
    /\ LET filters == Swapped(last.filters, i, j)
           r == SourceFilterPipeline_apply(filters, last.records)
       IN  /\ filters # last.filters
           /\ last' = [last EXCEPT !.op = "reordered", !.order = filters,
                                   !.kept_reordered = r.kept]
    /\ UNCHANGED <<fs, fmeta, now, db, mem, hist, cstate, d>>

NextFilter ==
    \/ \E predicate \in FilterPool : FilterAdd(predicate)
    \/ \E records \in FilterBatches : FilterApplyCall(records)
    \/ \E i, j \in 1..(MaxFilters + 1) : FilterApplyReordered(i, j)

SpecFilter == InitFilter /\ [][NextFilter]_vars

---------------------------------------------------------------------------
(* The daemon.  Two sources are configured, each a file-drop connector     *)
(* over one file; the store is the SQLiteStore.  The process may be killed *)
(* between any two steps; a poll, a hook and every write to the store may  *)
(* raise.                                                                  *)

\* config.sources, in order.
ConfigSources ==
    << [name |-> "terminal", enabled |-> TRUE],
       [name |-> "cursor",   enabled |-> FALSE],
       [name |-> "notes",    enabled |-> TRUE] >>

\* A variant that builds a connector for every configured source.
RECURSIVE build_connectors_IncludingDisabled(_)
build_connectors_IncludingDisabled(sources) ==
    IF sources = <<>> THEN <<>>
    ELSE <<Head(sources).name>> \o build_connectors_IncludingDisabled(Tail(sources))

\* build_connectors(config.sources): one connector per enabled source, in
\* configuration order (a connector is named by its source).
RECURSIVE build_connectors(_)
build_connectors(sources) ==
    IF sources = <<>> THEN <<>>
    ELSE (IF Head(sources).enabled THEN <<Head(sources).name>> ELSE <<>>)
             \o build_connectors(Tail(sources))

\* self.connectors
DaemonSources == build_connectors(ConfigSources)

\* The include_contains and exclude_contains lists of a source's config.
SourceIncludeContains(source) == <<>>
SourceExcludeContains(source) == IF source = "notes" THEN <<"b">> ELSE <<>>

\* The predicates build_source_filter_pipeline adds for a source, applied to
\* one record: all(predicate(record) for predicate in self.filters).
FilterKeeps(source, record) ==
    /\ SourceIncludeContains(source) # <<>>
           => ContainsAny(Lower(record.content), SourceIncludeContains(source))
    /\ SourceExcludeContains(source) # <<>>
           => ~ContainsAny(Lower(record.content), SourceExcludeContains(source))

\* SourceFilterPipeline.apply: the records kept, in order, and the count dropped.
RECURSIVE FilterApply(_, _, _)
FilterApply(source, records, acc) ==
    IF records = <<>> THEN acc
    ELSE FilterApply(source, Tail(records),
                     IF FilterKeeps(source, Head(records))
                     THEN [acc EXCEPT !.kept = Append(@, Head(records))]
                     ELSE [acc EXCEPT !.dropped = @ + 1])

\* The state file: missing, empty (opened for writing, nothing dumped yet)
\* or holding the YAML of {"per_source": ...}.
NoStateFile == [kind |-> "missing", per_source |-> EmptyMap]
EmptyStateFile == [kind |-> "empty", per_source |-> EmptyMap]

\* The state file holding bytes that are not the YAML of a mapping.
CorruptStateFile == [kind |-> "corrupt", per_source |-> EmptyMap]

\* load_state(path) raises: yaml.safe_load on a document it cannot parse, or
\* raw.get on a document that is not a mapping; nothing catches either.
load_state_raises(file) == file.kind = "corrupt"

\* load_state(path).per_source, when it returns.
load_state(file) == IF file.kind = "yaml" THEN file.per_source ELSE EmptyMap

\* What yaml.safe_dump leaves in the file.
save_state(per_source) == [kind |-> "yaml", per_source |-> per_source]

\* A process that is not running: no memory is left of it but how it ended.
Process0 ==
    [pc |-> "off", i |-> 1, state |-> EmptyMap, once |-> FALSE, running |-> FALSE,
     total_records |-> 0, cycle_summary |-> <<>>, records |-> <<>>, seen |-> 0,
     dropped |-> 0, inserted_events |-> 0, exc |-> NoneStr,
     polled |-> {}, raised |-> {}, failed |-> EmptyMap, handler_raised |-> FALSE,
     cycled |-> FALSE,       \* a cycle has started in this run
     state_writes |-> 0,     \* the calls of save_state in the cycle
     slept |-> FALSE,        \* the cycle ended with the sleep
     stop_in_cycle |-> FALSE,  \* stop() ran while a cycle was in progress
     audited |-> EmptyMap,   \* per source, the IngestAudit records appended
                             \* for it in the cycle
     cleared |-> {},         \* the sources whose status, written in the
                             \* cycle, replaced one with an error message
     steps |-> <<>>,         \* the cycle's calls of poll and ends of the
                             \* loop body, in the order they happened
     returned |-> EmptyMap,  \* per source, the state loaded at startup or
                             \* returned by its latest poll that did not raise
     exit_code |-> 0]

DaemonHist0 ==
    [kept    |-> {},      \* every record the filters kept, in any cycle of any run
     raised  |-> FALSE,   \* some step raised, in any cycle of any run
     starts  |-> 0,       \* the processes started so far
     writes  |-> 0]

Alive == d.pc \notin {"off", "done", "aborted", "crashed"}

Source == DaemonSources[d.i]

\* A variant that leaves the loop after the first source handled.
NextSource_Breaking(proc) == [proc EXCEPT !.pc = "save_state"]

\* The loop body of a source has ended: the next iteration of "for connector
\* in self.connectors", or the end of the loop.
NextSource(proc) ==
    IF proc.i < Len(DaemonSources)
    THEN [proc EXCEPT !.pc = "poll", !.i = @ + 1,
                      !.steps = Append(@, <<"end", DaemonSources[proc.i]>>)]
    ELSE [proc EXCEPT !.pc = "save_state",
                      !.steps = Append(@, <<"end", DaemonSources[proc.i]>>)]

\* A variant of the except path that forgets the state of the source.
Raised_Resetting(proc, message) ==
    [proc EXCEPT !.pc = "except", !.exc = message, !.raised = @ \cup {Source},
                 !.state = Put(@, Source, EmptyMap)]

\* "except Exception as exc": where a step that raised inside the try leaves
\* the process.
Raised(proc, message) ==
    [proc EXCEPT !.pc = "except", !.exc = message, !.raised = @ \cup {Source}]

\* A variant that reports the records kept as the records seen.
SourceIngestionSummary_SeenIsIngested(source, status, seen, ingested, dropped, inserted, message) ==
    [source |-> source, status |-> status, records_seen |-> ingested,
     records_ingested |-> ingested, records_filtered |-> dropped,
     inserted_events |-> inserted, error_message |-> message]

SourceIngestionSummary(source, status, seen, ingested, dropped, inserted, message) ==
    [source |-> source, status |-> status, records_seen |-> seen,
     records_ingested |-> ingested, records_filtered |-> dropped,
     inserted_events |-> inserted, error_message |-> message]

\* A variant that stores no error message.
SourceStatus_NoMessage(status, last_poll_ts, seen, ingested, message) ==
    [status |-> status, last_poll_ts |-> last_poll_ts, records_seen |-> seen,
     records_ingested |-> ingested, error_message |-> NoneStr]

SourceStatus(status, last_poll_ts, seen, ingested, message) ==
    [status |-> status, last_poll_ts |-> last_poll_ts, records_seen |-> seen,
     records_ingested |-> ingested, error_message |-> message]

\* A variant whose update leaves the error_message column as it is.
save_source_status_KeepingMessage(table, source, status) ==
    IF source \in DOMAIN table
    THEN Put(table, source, [status EXCEPT !.error_message = table[source].error_message])
    ELSE Put(table, source, status)

\* SQLiteStore.save_source_status: INSERT ... ON CONFLICT(source) DO UPDATE
\* of every other column.  The table is keyed by source.
save_source_status(table, source, status) == Put(table, source, status)

\* The row of the source holds an error message.
HoldsError(table, source) ==
    source \in DOMAIN table /\ table[source].error_message # NoneStr

InitDaemon ==
    /\ fs = EmptyMap
    /\ fmeta = EmptyMap
    /\ now = 0
    /\ db = EmptyDb
    /\ mem = EmptyMem
    /\ last = [op |-> "none"]
    /\ hist = DaemonHist0
    /\ cstate = NoStateFile
    /\ d = Process0

\* A writer appends a whole line to the file of a source.
DaemonWrite(path, text) ==
    /\ hist.writes < MaxDaemonWrites
    /\ fs' = AppendLine(fs, path, text)
    /\ hist' = [hist EXCEPT !.writes = @ + 1]
    /\ UNCHANGED <<fmeta, now, db, mem, last, cstate, d>>

\* The state file is damaged while no daemon runs, before another start.
DaemonCorruptStateFile ==
    /\ ~Alive
    /\ hist.starts < MaxStarts
    /\ cstate.kind \in {"empty", "yaml"}
    /\ cstate' = CorruptStateFile
    /\ UNCHANGED <<fs, fmeta, now, db, mem, last, hist, d>>

\* main(): Daemon(config) loads the state file, then run(once) starts.  If
\* load_state raises, the exception leaves Daemon.__init__ and main().
DaemonStart(once) ==
    /\ ~Alive
    /\ hist.starts < MaxStarts
    /\ d' = IF load_state_raises(cstate)
            THEN [Process0 EXCEPT !.pc = "aborted", !.exit_code = 1,
                                  !.exc = "state file unreadable", !.once = once]
            ELSE [Process0 EXCEPT !.pc = "loop", !.state = load_state(cstate),
                                  !.returned = load_state(cstate),
                                  !.once = once, !.running = TRUE]
    /\ hist' = [hist EXCEPT !.starts = @ + 1]
    /\ UNCHANGED <<fs, fmeta, now, db, mem, last, cstate>>

\* A variant of the stop request that ends run() where it is.
DaemonStop_Interrupting ==
    /\ Alive
    /\ d.running
    /\ d' = [d EXCEPT !.running = FALSE,
                      !.stop_in_cycle = d.pc \notin {"loop", "sleep"}, !.pc = "done",
                      !.exit_code = 0]
    /\ UNCHANGED <<fs, fmeta, now, db, mem, last, hist, cstate>>

\* SIGINT or SIGTERM: stop() clears self.running.
DaemonStop ==
    /\ Alive
    /\ d.running
    /\ d' = [d EXCEPT !.running = FALSE,
                      !.stop_in_cycle = d.pc \notin {"loop", "sleep"}]
    /\ UNCHANGED <<fs, fmeta, now, db, mem, last, hist, cstate>>

\* The process is killed: its memory is lost, the files and the store stay.
DaemonCrash ==
    /\ Alive
    /\ d' = [Process0 EXCEPT !.pc = "crashed"]
    /\ UNCHANGED <<fs, fmeta, now, db, mem, last, hist, cstate>>

\* A variant of the while test that ignores the running flag.
DaemonLoop_Ignoring ==
    /\ d.pc = "loop"
    /\ d' = [d EXCEPT !.pc = "poll", !.i = 1, !.total_records = 0,
                      !.cycle_summary = <<>>, !.records = <<>>, !.seen = 0,
                      !.dropped = 0, !.inserted_events = 0, !.exc = NoneStr,
                      !.polled = {}, !.raised = {}, !.failed = EmptyMap,
                      !.cycled = TRUE, !.state_writes = 0, !.slept = FALSE,
                      !.audited = EmptyMap, !.cleared = {}, !.steps = <<>>]
    /\ UNCHANGED <<fs, fmeta, now, db, mem, last, hist, cstate>>

\* "while self.running": a cycle begins, or run() returns and main() with it.
DaemonLoop ==
    /\ d.pc = "loop"
    /\ d' = IF d.running
            THEN [d EXCEPT !.pc = "poll", !.i = 1, !.total_records = 0,
                           !.cycle_summary = <<>>, !.records = <<>>, !.seen = 0,
                           !.dropped = 0, !.inserted_events = 0, !.exc = NoneStr,
                           !.polled = {}, !.raised = {}, !.failed = EmptyMap,
                           !.cycled = TRUE, !.state_writes = 0, !.slept = FALSE,
                      !.audited = EmptyMap, !.cleared = {}, !.steps = <<>>]
            ELSE [d EXCEPT !.pc = "done", !.exit_code = 0]
    /\ UNCHANGED <<fs, fmeta, now, db, mem, last, hist, cstate>>

\* A variant of the poll step that writes the state file as soon as the
\* poll has returned.
DaemonPoll_Flushing(raises) ==
    /\ d.pc = "poll"
    /\ LET r == FileDropPoll(Source, fs, Get(d.state, Source, EmptyMap))
           f == FilterApply(Source, r.records, [kept |-> <<>>, dropped |-> 0])
       IN  IF raises
           THEN /\ d' = [Raised(d, "poll failed") EXCEPT !.polled = @ \cup {Source},
                                  !.steps = Append(@, <<"poll", Source>>)]
                /\ hist' = [hist EXCEPT !.raised = TRUE]
                /\ UNCHANGED cstate
           ELSE /\ d' = [d EXCEPT !.state = Put(@, Source, r.state),
                                  !.records = f.kept,
                                  !.seen = r.stats.items_seen,
                                  !.dropped = f.dropped,
                                  !.inserted_events = 0,
                                  !.total_records = @ + Len(f.kept),
                                  !.polled = @ \cup {Source},
                                  !.steps = Append(@, <<"poll", Source>>),
                                  !.returned = Put(@, Source, r.state),
                                  !.pc = IF f.kept # <<>> THEN "process" ELSE "status"]
                /\ hist' = [hist EXCEPT !.kept = @ \cup Range(f.kept)]
                /\ cstate' = save_state(Put(d.state, Source, r.state))
    /\ UNCHANGED <<fs, fmeta, now, db, mem, last>>

\* connector.poll(source_state), the state assignment and the filters.
DaemonPoll(raises) ==
    /\ d.pc = "poll"
    /\ LET r == FileDropPoll(Source, fs, Get(d.state, Source, EmptyMap))
           f == FilterApply(Source, r.records, [kept |-> <<>>, dropped |-> 0])
       IN  IF raises
           THEN /\ d' = [Raised(d, "poll failed") EXCEPT !.polled = @ \cup {Source},
                                  !.steps = Append(@, <<"poll", Source>>)]
                /\ hist' = [hist EXCEPT !.raised = TRUE]
           ELSE /\ d' = [d EXCEPT !.state = Put(@, Source, r.state),
                                  !.records = f.kept,
                                  !.seen = r.stats.items_seen,
                                  !.dropped = f.dropped,
                                  !.inserted_events = 0,
                                  !.total_records = @ + Len(f.kept),
                                  !.polled = @ \cup {Source},
                                  !.steps = Append(@, <<"poll", Source>>),
                                  !.returned = Put(@, Source, r.state),
                                  !.pc = IF f.kept # <<>> THEN "process" ELSE "status"]
                /\ hist' = [hist EXCEPT !.kept = @ \cup Range(f.kept)]
    /\ UNCHANGED <<fs, fmeta, now, db, mem, last, cstate>>

\* _process_records up to save_events: the hooks and the pipeline stages,
\* then the Events are saved.  A hook may raise; save_events may raise after
\* some rows were inserted, which the next commit makes durable.
DaemonProcess(outcome, rows) ==
    /\ d.pc = "process"
    /\ LET events == normalize_records(d.records, now)
       IN  CASE outcome = "ok" ->
                  /\ rows = Len(events)
                  /\ LET r == SQLite_save_events(db.events, events)
                     IN  /\ db' = [db EXCEPT !.events = r.events]
                         /\ d' = [d EXCEPT !.pc = "persist",
                                           !.inserted_events = r.inserted]
                  /\ UNCHANGED hist
            [] outcome = "hook raises" ->
                  /\ rows = 0
                  /\ d' = Raised(d, "hook failed")
                  /\ hist' = [hist EXCEPT !.raised = TRUE]
                  /\ UNCHANGED db
            [] outcome = "store raises" ->
                  /\ rows < Len(events)
                  /\ db' = [db EXCEPT !.events =
                              SQLite_save_events(@, SubSeq(events, 1, rows)).events]
                  /\ d' = [Raised(d, "store failed") EXCEPT
                              !.failed = Put(@, Source, d.records)]
                  /\ hist' = [hist EXCEPT !.raised = TRUE]
    /\ UNCHANGED <<fs, fmeta, now, mem, last, cstate>>

\* save_sessions, save_moments, save_skill_candidates and the exports.
DaemonPersist(raises) ==
    /\ d.pc = "persist"
    /\ IF raises
       THEN /\ d' = [Raised(d, "store failed") EXCEPT
                        !.failed = Put(@, Source, d.records)]
            /\ hist' = [hist EXCEPT !.raised = TRUE]
       ELSE /\ d' = [d EXCEPT !.pc = "audit"]
            /\ UNCHANGED hist
    /\ UNCHANGED <<fs, fmeta, now, db, mem, last, cstate>>

\* append_ingest_audit, the last step of _process_records.
DaemonAudit(raises) ==
    /\ d.pc = "audit"
    /\ IF raises
       THEN /\ d' = [Raised(d, "store failed") EXCEPT
                        !.failed = Put(@, Source, d.records)]
            /\ hist' = [hist EXCEPT !.raised = TRUE]
            /\ UNCHANGED db
       ELSE /\ db' = [db EXCEPT !.audits =
                        Append(@, [source |-> Source,
                                   event_count |-> d.inserted_events,
                                   records |-> Len(d.records)])]
            /\ d' = [d EXCEPT !.pc = "status",
                              !.audited = Put(@, Source, Get(@, Source, 0) + 1)]
            /\ UNCHANGED hist
    /\ UNCHANGED <<fs, fmeta, now, mem, last, cstate>>

\* The summary of the source is appended, then its status is saved.
DaemonStatus(raises) ==
    /\ d.pc = "status"
    /\ LET status == IF d.records # <<>> THEN "ingesting" ELSE "idle"
           summary == SourceIngestionSummary(Source, status, d.seen, Len(d.records),
                                             d.dropped, d.inserted_events, NoneStr)
           appended == [d EXCEPT !.cycle_summary = Append(@, summary)]
       IN  IF raises
           THEN /\ d' = Raised(appended, "store failed")
                /\ hist' = [hist EXCEPT !.raised = TRUE]
                /\ UNCHANGED db
           ELSE /\ db' = [db EXCEPT !.source_status =
                            save_source_status(@, Source,
                                               SourceStatus(status, now, d.seen,
                                                            Len(d.records), NoneStr))]
                /\ d' = NextSource([appended EXCEPT !.cleared =
                                       IF HoldsError(db.source_status, Source)
                                       THEN @ \cup {Source} ELSE @])
                /\ UNCHANGED hist
    /\ UNCHANGED <<fs, fmeta, now, mem, last, cstate>>

\* The except clause: the error summary is appended, then the error status
\* is saved.  If that write raises, the exception leaves run() and main().
DaemonExcept(raises) ==
    /\ d.pc = "except"
    /\ LET summary == SourceIngestionSummary(Source, "error", 0, 0, 0, 0, d.exc)
           appended == [d EXCEPT !.cycle_summary = Append(@, summary)]
       IN  IF raises
           THEN /\ d' = [appended EXCEPT !.pc = "aborted", !.exit_code = 1,
                                         !.handler_raised = TRUE]
                /\ UNCHANGED db
           ELSE /\ db' = [db EXCEPT !.source_status =
                            save_source_status(@, Source,
                                               SourceStatus("error", now, 0, 0, d.exc))]
                /\ d' = NextSource(appended)
    /\ UNCHANGED <<fs, fmeta, now, mem, last, hist, cstate>>

\* save_state: path.open("w") truncates the state file.
DaemonSaveStateOpen ==
    /\ d.pc = "save_state"
    /\ cstate' = EmptyStateFile
    /\ d' = [d EXCEPT !.pc = "dump", !.state_writes = @ + 1]
    /\ UNCHANGED <<fs, fmeta, now, db, mem, last, hist>>

\* save_state: yaml.safe_dump writes the payload and the file is closed.
DaemonSaveStateDump ==
    /\ d.pc = "dump"
    /\ cstate' = save_state(d.state)
    /\ d' = [d EXCEPT !.pc = "cycle_end"]
    /\ UNCHANGED <<fs, fmeta, now, db, mem, last, hist>>

\* A variant that sleeps after every cycle.
DaemonCycleEnd_AlwaysSleeping ==
    /\ d.pc = "cycle_end"
    /\ d' = IF d.once THEN [d EXCEPT !.pc = "done", !.exit_code = 0]
            ELSE [d EXCEPT !.pc = "sleep", !.slept = TRUE]
    /\ UNCHANGED <<fs, fmeta, now, db, mem, last, hist, cstate>>

\* "if once: break", else the sleep when total_records is 0, else the next
\* test of the while at once.
DaemonCycleEnd ==
    /\ d.pc = "cycle_end"
    /\ d' = IF d.once THEN [d EXCEPT !.pc = "done", !.exit_code = 0]
            ELSE IF d.total_records = 0 THEN [d EXCEPT !.pc = "sleep", !.slept = TRUE]
            ELSE [d EXCEPT !.pc = "loop"]
    /\ UNCHANGED <<fs, fmeta, now, db, mem, last, hist, cstate>>

\* time.sleep(poll_interval_seconds) returns.
DaemonWake ==
    /\ d.pc = "sleep"
    /\ d' = [d EXCEPT !.pc = "loop"]
    /\ UNCHANGED <<fs, fmeta, now, db, mem, last, hist, cstate>>

NextDaemon ==
    \/ \E path \in {"/t/a.log", "/n/a.log"}, text \in {"a", "B"} : DaemonWrite(path, text)
    \/ \E once \in BOOLEAN : DaemonStart(once)
    \/ DaemonStop
    \/ DaemonCrash
    \/ DaemonLoop
    \/ \E raises \in BOOLEAN : DaemonPoll(raises)
    \/ \E outcome \in {"ok", "hook raises", "store raises"}, rows \in 0..MaxDaemonWrites :
           DaemonProcess(outcome, rows)
    \/ \E raises \in BOOLEAN : DaemonPersist(raises)
    \/ \E raises \in BOOLEAN : DaemonAudit(raises)
    \/ \E raises \in BOOLEAN : DaemonStatus(raises)
    \/ \E raises \in BOOLEAN : DaemonExcept(raises)
    \/ DaemonSaveStateOpen
    \/ DaemonSaveStateDump
    \/ DaemonCycleEnd
    \/ DaemonWake

SpecDaemon == InitDaemon /\ [][NextDaemon]_vars

\* The daemon on a disk where the state file may be damaged between runs.
NextDaemonDamaged ==
    \/ NextDaemon
    \/ DaemonCorruptStateFile

SpecDaemonDamaged == InitDaemon /\ [][NextDaemonDamaged]_vars

\* The steps of the daemon process itself: one sequential thread.  (Where a
\* step has several outcomes the one that reads no file comes first, which
\* is the one TLC tries first when it evaluates ENABLED.)
DaemonStep ==
    \/ DaemonLoop
    \/ DaemonPoll(TRUE)
    \/ DaemonPoll(FALSE)
    \/ \E rows \in 0..MaxDaemonWrites : DaemonProcess("hook raises", rows)
    \/ \E outcome \in {"ok", "store raises"}, rows \in 0..MaxDaemonWrites :
           DaemonProcess(outcome, rows)
    \/ \E raises \in BOOLEAN : DaemonPersist(raises)
    \/ \E raises \in BOOLEAN : DaemonAudit(raises)
    \/ \E raises \in BOOLEAN : DaemonStatus(raises)
    \/ \E raises \in BOOLEAN : DaemonExcept(raises)
    \/ DaemonSaveStateOpen
    \/ DaemonSaveStateDump
    \/ DaemonCycleEnd
    \/ DaemonWake

\* The daemon with no kill of the process, and every call it makes returning
\* or raising: the thread always takes its next step.
NextDaemonFair ==
    \/ \E path \in {"/t/a.log", "/n/a.log"}, text \in {"a", "B"} : DaemonWrite(path, text)
    \/ \E once \in BOOLEAN : DaemonStart(once)
    \/ DaemonStop
    \/ DaemonStep

SpecDaemonFair == InitDaemon /\ [][NextDaemonFair]_vars /\ WF_vars(DaemonStep)

---------------------------------------------------------------------------
(* SpecSpool: JsonlSpool.  The spool directory is fs: segment path ->      *)
(* the rows of the segment file, one JSON object per line.  json.dumps     *)
(* with ensure_ascii escapes every line terminator and json.loads gives    *)
(* back each string, integer and null as it was, so a line is modelled     *)
(* as the payload it encodes; the timestamp goes through isoformat() and   *)
(* fromisoformat().                                                        *)

MaxSpoolWrites == 2
MaxSegmentRecords == 3

NoPath == NoneStr

Digits == <<"0", "1", "2", "3", "4", "5", "6", "7", "8", "9">>

\* self.root / f"segment_{uuid.uuid4().hex}.jsonl": a name no other segment
\* has; the n-th name drawn carries the number n.
SegmentPath(n) ==
    "/spool/segment_" \o Digits[((n \div 10) % 10) + 1] \o Digits[(n % 10) + 1] \o ".jsonl"

\* datetime.isoformat() of the instant of tick ts
isoformat(ts) == "2024-01-01T00:00:0" \o Digits[ts + 1] \o "+00:00"

\* datetime.fromisoformat(raw): the tick, or NoTs for a ValueError
fromisoformat(raw) ==
    IF Len(raw) = 25 /\ SubSeq(raw, 1, 18) = "2024-01-01T00:00:0"
                     /\ SubSeq(raw, 20, 25) = "+00:00"
                     /\ \E n \in DOMAIN Digits : Digits[n] = Char(raw, 19)
    THEN (CHOOSE n \in DOMAIN Digits : Digits[n] = Char(raw, 19)) - 1
    ELSE NoTs

\* str.replace("Z", "+00:00")
RECURSIVE ReplaceZ(_)
ReplaceZ(s) ==
    IF Len(s) = 0 THEN ""
    ELSE (IF Char(s, 1) = "Z" THEN "+00:00" ELSE Char(s, 1)) \o ReplaceZ(From(s, 1))

\* spool._parse_ts(raw)
Spool_parse_ts(raw) ==
    IF raw = NoneStr \/ raw = "" THEN NoTs
    ELSE fromisoformat(ReplaceZ(raw))

\* The payload written for a record.
SpoolPayload(record) ==
    [source |-> record.source, file_path |-> record.file_path,
     line_number |-> record.line_number, content |-> record.content,
     ts |-> IF record.ts # NoTs THEN isoformat(record.ts) ELSE NoneStr,
     session_hint |-> record.session_hint, group_hint |-> record.group_hint,
     actor |-> record.actor]

\* The SourceRecord built from a row.
SpoolRecordOf(row) ==
    [source |-> row.source, file_path |-> row.file_path,
     line_number |-> row.line_number, content |-> row.content,
     ts |-> Spool_parse_ts(row.ts),
     session_hint |-> row.session_hint, group_hint |-> row.group_hint,
     actor |-> row.actor]

SpoolSegment(path, record_count) == [path |-> path, record_count |-> record_count]

\* A variant that starts a new segment only once the current one holds more
\* than max_records_per_segment records.
SegmentIsFull_OneMore(current_records, max_records_per_segment) ==
    current_records > max_records_per_segment

\* "current_records >= self.max_records_per_segment"
SegmentIsFull(current_records, max_records_per_segment) ==
    current_records >= max_records_per_segment

\* The loop of write_records over the records left, and the close of the
\* last segment after it.
RECURSIVE SpoolWriteLoop(_, _, _, _, _, _, _)
SpoolWriteLoop(records, max_records_per_segment, files, segments, current_path, current_records, uuids) ==
    IF records = <<>>
    THEN [files |-> files, uuids |-> uuids,
          segments |-> IF current_path # NoPath
                       THEN Append(segments, SpoolSegment(current_path, current_records))
                       ELSE segments]
    ELSE LET roll == current_path = NoPath
                        \/ SegmentIsFull(current_records, max_records_per_segment)
             closed == IF roll /\ current_path # NoPath
                       THEN Append(segments, SpoolSegment(current_path, current_records))
                       ELSE segments
             path == IF roll THEN SegmentPath(uuids + 1) ELSE current_path
             opened == IF roll THEN Put(files, path, <<>>) ELSE files
             written == Put(opened, path, Append(opened[path], SpoolPayload(Head(records))))
         IN  SpoolWriteLoop(Tail(records), max_records_per_segment, written, closed, path,
                            (IF roll THEN 0 ELSE current_records) + 1,
                            IF roll THEN uuids + 1 ELSE uuids)

\* JsonlSpool.write_records(records): the files of the spool directory
\* after it, the segments returned and the number of names drawn.
JsonlSpool_write_records(files, records, max_records_per_segment, uuids) ==
    SpoolWriteLoop(records, max_records_per_segment, files, <<>>, NoPath, 0, uuids)

\* The rows of one segment file turned into records.
RECURSIVE SpoolRows(_)
SpoolRows(rows) ==
    IF rows = <<>> THEN <<>>
    ELSE <<SpoolRecordOf(Head(rows))>> \o SpoolRows(Tail(rows))

\* JsonlSpool.iter_records(segments), every segment file being there.
RECURSIVE JsonlSpool_iter_records(_, _)
JsonlSpool_iter_records(files, segments) ==
    IF segments = <<>> THEN <<>>
    ELSE SpoolRows(files[Head(segments).path])
             \o JsonlSpool_iter_records(files, Tail(segments))

\* JsonlSpool.cleanup(segments): unlink(missing_ok=True) of each path.
JsonlSpool_cleanup(files, segments) ==
    [p \in DOMAIN files \ { segments[i].path : i \in DOMAIN segments } |-> files[p]]

\* The records written: with and without timestamp and hint.
SpoolRecords ==
    << SourceRecord("terminal", "/t/a.log", 1, "a", 1, "s", "user"),
       SourceRecord("terminal", "/t/a.log", 2, " b", NoTs, NoneStr, "bot") >>

\* The batches written: of at most n records, the two records taking turns.
SpoolBatches(n) ==
    { [i \in 1..k |-> SpoolRecords[((first + i) % 2) + 1]] : first \in 0..1, k \in 0..n }

InitSpool ==
    /\ fs = EmptyMap
    /\ fmeta = EmptyMap
    /\ now = 0
    /\ db = EmptyDb
    /\ mem = EmptyMem
    /\ last = [op |-> "none", records |-> <<>>, segments |-> <<>>, yielded |-> <<>>,
               pre |-> {}]
    /\ hist = [writes |-> 0]
    /\ cstate = EmptyMap
    /\ \E max_records_per_segment \in 0..MaxSegmentRecords :    \* JsonlSpool(root, ...)
           d = [max_records_per_segment |-> max_records_per_segment, uuids |-> 0]

\* segments = spool.write_records(records)
SpoolWrite(records) ==
    /\ hist.writes < MaxSpoolWrites
    /\ LET r == JsonlSpool_write_records(fs, records, d.max_records_per_segment, d.uuids)
       IN  /\ fs' = r.files
           /\ d' = [d EXCEPT !.uuids = r.uuids]
           /\ last' = [op |-> "write", records |-> records, segments |-> r.segments,
                       yielded |-> <<>>, pre |-> DOMAIN fs]
    /\ hist' = [hist EXCEPT !.writes = @ + 1]
    /\ UNCHANGED <<fmeta, now, db, mem, cstate>>

\* list(spool.iter_records(segments)), for the segments just written
SpoolIter ==
    /\ last.op = "write"
    /\ last' = [last EXCEPT !.op = "iter",
                            !.yielded = JsonlSpool_iter_records(fs, last.segments)]
    /\ UNCHANGED <<fs, fmeta, now, db, mem, hist, cstate, d>>

\* spool.cleanup(segments), for the segments last written
SpoolCleanup ==
    /\ last.op \in {"write", "iter"}
    /\ fs' = JsonlSpool_cleanup(fs, last.segments)
    /\ last' = [last EXCEPT !.op = "cleanup"]
    /\ UNCHANGED <<fmeta, now, db, mem, hist, cstate, d>>

NextSpool ==
    \/ \E records \in SpoolBatches(MaxSegmentRecords + 1) : SpoolWrite(records)
    \/ SpoolIter
    \/ SpoolCleanup

SpecSpool == InitSpool /\ [][NextSpool]_vars

---------------------------------------------------------------------------
(* SpecIngest: scripts/run_ingest.py.  One run handles the enabled sources *)
(* of the configuration in order: a source read by the trawler has its     *)
(* records written to the spool and read back from it, a source with the   *)
(* use_connector option is polled; the records are normalized and saved to *)
(* the SQLiteStore.  After the loop come the memory export, the cleanup of *)
(* the spool and the write of the state file.  The process may be killed   *)
(* between any two steps, and the store and the export may raise.  The     *)
(* sources have no filter terms and there is no --max-records-per-source.  *)

MaxIngestWrites == 2
MaxRuns == 2

\* JsonlSpool(Path(args.spool_dir)): max_records_per_segment has its default.
IngestSegmentRecords == 10000

\* A local variable that no statement has assigned yet.
Unbound == "<unbound>"

\* What config.sources may hold (the enabled sources, in order).
IngestSourceLists ==
    { <<"terminal", "notes">>, <<"notes", "terminal">>, <<"terminal", "imessage">>,
      <<"imessage">> }

\* _is_file_source, for sources without a "mode" option
is_file_source(source) == source # "imessage"

IngestProcess0 ==
    [pc         |-> "off",
     i          |-> 1,          \* the position of the loop in source_list
     per_source |-> EmptyMap,   \* per_source_state
     segments   |-> Unbound,    \* the local variable of main
     records    |-> <<>>,
     saved      |-> {},         \* the sources whose Events this run has saved
     exit_code  |-> NoTs]

IngestHist0 ==
    [writes    |-> 0,
     runs      |-> 0,
     written   |-> EmptyMap,    \* segment path -> the run and source that wrote
                                \* it, and its rows
     persisted |-> {}]          \* the segments whose records the run that wrote
                                \* them has saved

InitIngest ==
    /\ fs = EmptyMap
    /\ fmeta = EmptyMap
    /\ now = 0
    /\ db = EmptyDb
    /\ mem = EmptyMem
    /\ cstate = EmptyMap
    /\ hist = IngestHist0
    /\ d = IngestProcess0
    /\ \E sources \in IngestSourceLists, use_connector \in SUBSET {"notes"},
          exports \in BOOLEAN, keep_spool \in BOOLEAN :
           last = [sources |-> sources,              \* config.sources
                   use_connector |-> use_connector,  \* options.use_connector
                   exports |-> exports,              \* config.exports, memory enabled
                   keep_spool |-> keep_spool,        \* --keep-spool
                   uuids |-> 0]                      \* the segment names drawn so far

IngestRunning == d.pc \in {"loop", "process", "finish"}

IngestSource == last.sources[d.i]

\* A writer appends a whole line to the file of a source.
IngestWrite(path, text) ==
    /\ hist.writes < MaxIngestWrites
    /\ fs' = AppendLine(fs, path, text)
    /\ fmeta' = Touch(fmeta, path)
    /\ hist' = [hist EXCEPT !.writes = @ + 1]
    /\ UNCHANGED <<now, db, mem, last, cstate, d>>

\* main() up to the loop: the state file is loaded.
IngestStart ==
    /\ ~IngestRunning
    /\ hist.runs < MaxRuns
    /\ d' = [IngestProcess0 EXCEPT !.pc = "loop", !.per_source = cstate]
    /\ hist' = [hist EXCEPT !.runs = @ + 1]
    /\ UNCHANGED <<fs, fmeta, now, db, mem, last, cstate>>

\* The process is killed.
IngestKill ==
    /\ IngestRunning
    /\ d' = [d EXCEPT !.pc = "killed"]
    /\ UNCHANGED <<fs, fmeta, now, db, mem, last, hist, cstate>>

SegmentPaths(segments) == { segments[i].path : i \in DOMAIN segments }

\* The head of the loop body: a source that is not a file source is skipped;
\* a connector source is polled; any other is trawled into the spool and
\* its records are read back from the segments.
IngestRead ==
    /\ d.pc = "loop"
    /\ d.i <= Len(last.sources)
    /\ IF ~is_file_source(IngestSource)
       THEN /\ d' = [d EXCEPT !.i = @ + 1]
            /\ UNCHANGED <<fs, last, hist>>
       ELSE IF IngestSource \in last.use_connector
       THEN LET poll == FileDropPoll(IngestSource, fs,
                                     Get(d.per_source, IngestSource, EmptyMap))
            IN  /\ d' = [d EXCEPT !.pc = "process", !.segments = <<>>,
                                  !.records = poll.records,
                                  !.per_source = Put(@, IngestSource, poll.state)]
                /\ UNCHANGED <<fs, last, hist>>
       ELSE LET r == Trawler_iter_new_records(IngestSource, fs, fs, fmeta,
                         Get(d.per_source, IngestSource, EmptyMap), NoLimit)
                w == JsonlSpool_write_records(fs, r.records, IngestSegmentRecords,
                                              last.uuids)
            IN  /\ fs' = w.files
                /\ last' = [last EXCEPT !.uuids = w.uuids]
                /\ d' = [d EXCEPT !.pc = "process", !.segments = w.segments,
                                  !.records = JsonlSpool_iter_records(w.files, w.segments),
                                  !.per_source = Put(@, IngestSource, r.state)]
                /\ hist' = [hist EXCEPT !.written =
                               [p \in DOMAIN @ \cup SegmentPaths(w.segments) |->
                                   IF p \in DOMAIN @ THEN @[p]
                                   ELSE [run |-> hist.runs, source |-> IngestSource,
                                         rows |-> w.files[p]]]]
    /\ UNCHANGED <<fmeta, now, db, mem, cstate>>

\* A variant in which a save that raises is logged and the loop goes on.
IngestProcess_Swallowing(outcome) ==
    /\ d.pc = "process"
    /\ LET events == normalize_records(d.records, now)
           saved  == SQLite_save_events(db.events, events)
           status == IF d.records # <<>> THEN "ingesting" ELSE "idle"
       IN  CASE outcome = "save raises" ->
                    /\ d' = [d EXCEPT !.pc = "loop", !.i = @ + 1]
                    /\ UNCHANGED <<db, hist>>
             [] outcome = "status raises" ->
                    /\ db' = [db EXCEPT !.events = saved.events]
                    /\ d' = [d EXCEPT !.pc = "aborted", !.exit_code = 1,
                                      !.saved = @ \cup {IngestSource}]
                    /\ hist' = [hist EXCEPT !.persisted = @ \cup SegmentPaths(d.segments)]
             [] OTHER ->
                    /\ db' = [db EXCEPT !.events = saved.events,
                                 !.source_status =
                                     save_source_status(@, IngestSource,
                                         SourceStatus(status, now, Len(d.records),
                                                      Len(d.records), NoneStr))]
                    /\ d' = [d EXCEPT !.pc = "loop", !.i = @ + 1,
                                      !.saved = @ \cup {IngestSource}]
                    /\ hist' = [hist EXCEPT !.persisted = @ \cup SegmentPaths(d.segments)]
    /\ UNCHANGED <<fs, fmeta, now, mem, last, cstate>>

\* The rest of the loop body: the filter pipeline (which has no term and
\* keeps every record), normalize_records, the saves to the store, the
\* source status and the audit.  A call of the store that raises ends
\* main() with the exception.
IngestProcess(outcome) ==
    /\ d.pc = "process"
    /\ LET events == normalize_records(d.records, now)
           saved  == SQLite_save_events(db.events, events)
           status == IF d.records # <<>> THEN "ingesting" ELSE "idle"
       IN  CASE outcome = "save raises" ->
                    /\ d' = [d EXCEPT !.pc = "aborted", !.exit_code = 1]
                    /\ UNCHANGED <<db, hist>>
             [] outcome = "status raises" ->
                    /\ db' = [db EXCEPT !.events = saved.events]
                    /\ d' = [d EXCEPT !.pc = "aborted", !.exit_code = 1,
                                      !.saved = @ \cup {IngestSource}]
                    /\ hist' = [hist EXCEPT !.persisted = @ \cup SegmentPaths(d.segments)]
             [] OTHER ->
                    /\ db' = [db EXCEPT !.events = saved.events,
                                 !.source_status =
                                     save_source_status(@, IngestSource,
                                         SourceStatus(status, now, Len(d.records),
                                                      Len(d.records), NoneStr))]
                    /\ d' = [d EXCEPT !.pc = "loop", !.i = @ + 1,
                                      !.saved = @ \cup {IngestSource}]
                    /\ hist' = [hist EXCEPT !.persisted = @ \cup SegmentPaths(d.segments)]
    /\ UNCHANGED <<fs, fmeta, now, mem, last, cstate>>

\* After the loop: "if config.exports.enabled and memory enabled:" the
\* export, and inside the same block "if not args.keep_spool:
\* spool.cleanup(segments)", segments being the variable the last loop
\* body assigned.  Reading it when no loop body assigned it is a NameError.
IngestExport(raises) ==
    /\ d.pc = "loop"
    /\ d.i > Len(last.sources)
    /\ IF ~last.exports
       THEN /\ ~raises
            /\ d' = [d EXCEPT !.pc = "finish"]
            /\ UNCHANGED fs
       ELSE IF raises \/ (~last.keep_spool /\ d.segments = Unbound)
       THEN /\ d' = [d EXCEPT !.pc = "aborted", !.exit_code = 1]
            /\ UNCHANGED fs
       ELSE /\ d' = [d EXCEPT !.pc = "finish"]
            /\ fs' = IF last.keep_spool THEN fs ELSE JsonlSpool_cleanup(fs, d.segments)
    /\ UNCHANGED <<fmeta, now, db, mem, last, hist, cstate>>

\* _save_state, store.close() and the report: main() returns 0.
IngestFinish ==
    /\ d.pc = "finish"
    /\ cstate' = d.per_source
    /\ d' = [d EXCEPT !.pc = "done", !.exit_code = 0]
    /\ UNCHANGED <<fs, fmeta, now, db, mem, last, hist>>

NextIngest ==
    \/ \E path \in {"/t/a.log", "/n/a.log"}, text \in {"a", "b"} : IngestWrite(path, text)
    \/ IngestStart
    \/ IngestKill
    \/ IngestRead
    \/ \E outcome \in {"ok", "save raises", "status raises"} : IngestProcess(outcome)
    \/ \E raises \in BOOLEAN : IngestExport(raises)
    \/ IngestFinish

SpecIngest == InitIngest /\ [][NextIngest]_vars

---------------------------------------------------------------------------
(* SpecHooks: Daemon._process_records with hooks registered.  A hook is a  *)
(* function from PipelineContext to PipelineContext; the registry holds,   *)
(* per extension point, the hooks in the order the plugins appended them.  *)
(* The Moments and skill candidates of the context are left out: the       *)
(* stages that build them do not touch its Events and Sessions.            *)

\* PipelineContext()
PipelineContext0 == [events |-> <<>>, sessions |-> <<>>, derived |-> EmptyMap]

\* The hooks of the model: one rewrites the content of the first Event, one
\* removes the first Event, one raises.
HookNames == {"mark_first", "drop_first", "raises"}

\* hook(ctx), for a hook that returns
HookApply(hook, ctx) ==
    CASE hook = "mark_first" ->
             IF ctx.events = <<>> THEN ctx
             ELSE [ctx EXCEPT !.events = <<[Head(@) EXCEPT !.content = "*"]>> \o Tail(@)]
      [] hook = "drop_first" ->
             IF ctx.events = <<>> THEN ctx
             ELSE [ctx EXCEPT !.events = Tail(@)]
      [] OTHER -> ctx

\* A variant that calls the hooks last registered first.
RECURSIVE HookLoop_Reversed(_, _, _)
HookLoop_Reversed(hooks, ctx, calls) ==
    IF hooks = <<>> THEN [ctx |-> ctx, raised |-> FALSE, calls |-> calls]
    ELSE LET hook == hooks[Len(hooks)]
         IN  IF hook = "raises"
             THEN [ctx |-> ctx, raised |-> TRUE,
                   calls |-> Append(calls, [hook |-> hook, received |-> ctx,
                                            returned |-> NoRecord])]
             ELSE HookLoop_Reversed(SubSeq(hooks, 1, Len(hooks) - 1), HookApply(hook, ctx),
                      Append(calls, [hook |-> hook, received |-> ctx,
                                     returned |-> HookApply(hook, ctx)]))

\* "for hook in hooks: ctx = hook(ctx)": the context after the loop, whether
\* a hook raised, and the calls made (what each hook received and returned).
RECURSIVE HookLoop(_, _, _)
HookLoop(hooks, ctx, calls) ==
    IF hooks = <<>> THEN [ctx |-> ctx, raised |-> FALSE, calls |-> calls]
    ELSE LET hook == Head(hooks)
         IN  IF hook = "raises"
             THEN [ctx |-> ctx, raised |-> TRUE,
                   calls |-> Append(calls, [hook |-> hook, received |-> ctx,
                                            returned |-> NoRecord])]
             ELSE HookLoop(Tail(hooks), HookApply(hook, ctx),
                      Append(calls, [hook |-> hook, received |-> ctx,
                                     returned |-> HookApply(hook, ctx)]))

\* HookRegistry.run(hooks, ctx)
HookRegistry_run(hooks, ctx) == HookLoop(hooks, ctx, <<>>)

\* The extension points, and the lists a plugin set may leave in one.
HookPoints ==
    {"pre_normalize", "post_normalize", "post_sessionize", "post_momentize",
     "post_extract", "post_skill_mine"}

HookLists ==
    { <<>>, <<"mark_first", "drop_first">>, <<"drop_first", "mark_first">>, <<"raises">> }

\* The batches of filtered records handed to _process_records.
HookBatches ==
    { << SourceRecord("terminal", "/t/a.log", 1, "a", 2, "s", "user"),
         SourceRecord("terminal", "/t/a.log", 2, "b", 1, "s", "bot") >>,
      << SourceRecord("terminal", "/t/a.log", 1, "a", 2, "s", "user"),
         SourceRecord("terminal", "/t/b.log", 1, "c", 2, NoneStr, "user") >> }

InitHooks ==
    /\ fs = EmptyMap
    /\ fmeta = EmptyMap
    /\ now = 0
    /\ db = [events |-> {}, sessions |-> {}]
    /\ mem = EmptyMem
    /\ last = [op |-> "none"]
    /\ hist = [trace |-> <<>>,     \* the stages and hook runs so far, in order
               calls |-> <<>>]     \* the hook calls so far, with their stage
    /\ cstate = EmptyMap
    /\ \E registry \in [HookPoints -> HookLists] :     \* self.hooks, after load_plugins
           d = [pc |-> "idle", hooks |-> registry, records |-> <<>>,
                ctx |-> PipelineContext0]

\* _process_records(source_name, records) is called: the context is built.
HooksStart(records) ==
    /\ d.pc = "idle"
    /\ d' = [d EXCEPT !.pc = "pre_normalize", !.records = records,
                      !.ctx = [PipelineContext0 EXCEPT !.derived = Put(@, "records", records)]]
    /\ UNCHANGED <<fs, fmeta, now, db, mem, last, hist, cstate>>

\* The statement that follows the hooks.run of an extension point.
AfterHooks(point) ==
    CASE point = "pre_normalize"   -> "normalize"
      [] point = "post_normalize"  -> "sessionize"
      [] point = "post_sessionize" -> "momentize"
      [] point = "post_momentize"  -> "extract"
      [] point = "post_extract"    -> "skill_mine"
      [] point = "post_skill_mine" -> "save"

\* ctx = self.hooks.run(self.hooks.<point>, ctx); a hook that raises ends
\* _process_records with the exception.
HooksRun(point) ==
    /\ d.pc = point
    /\ LET r == HookRegistry_run(d.hooks[point], d.ctx)
       IN  /\ d' = [d EXCEPT !.ctx = r.ctx,
                             !.pc = IF r.raised THEN "raised" ELSE AfterHooks(point)]
           /\ hist' = [hist EXCEPT
                  !.trace = Append(@, point),
                  !.calls = @ \o [i \in DOMAIN r.calls |->
                                     [stage |-> point, hook |-> r.calls[i].hook,
                                      received |-> r.calls[i].received,
                                      returned |-> r.calls[i].returned]]]
    /\ UNCHANGED <<fs, fmeta, now, db, mem, last, cstate>>

\* ctx.events = normalize_records(records)
HooksNormalize ==
    /\ d.pc = "normalize"
    /\ d' = [d EXCEPT !.ctx.events = normalize_records(d.records, now),
                      !.pc = "post_normalize"]
    /\ hist' = [hist EXCEPT !.trace = Append(@, "normalize")]
    /\ UNCHANGED <<fs, fmeta, now, db, mem, last, cstate>>

\* ctx.sessions = sessionize_events(ctx.events)
HooksSessionize ==
    /\ d.pc = "sessionize"
    /\ d' = [d EXCEPT !.ctx.sessions = sessionize_events(d.ctx.events),
                      !.pc = "post_sessionize"]
    /\ hist' = [hist EXCEPT !.trace = Append(@, "sessionize")]
    /\ UNCHANGED <<fs, fmeta, now, db, mem, last, cstate>>

\* ctx.moments = momentize_sessions(ctx.sessions)
HooksMomentize ==
    /\ d.pc = "momentize"
    /\ d' = [d EXCEPT !.pc = "post_momentize"]
    /\ hist' = [hist EXCEPT !.trace = Append(@, "momentize")]
    /\ UNCHANGED <<fs, fmeta, now, db, mem, last, cstate>>

\* ctx.moments = annotate_moments(ctx.moments, ctx.events)
HooksExtract ==
    /\ d.pc = "extract"
    /\ d' = [d EXCEPT !.pc = "post_extract"]
    /\ hist' = [hist EXCEPT !.trace = Append(@, "extract")]
    /\ UNCHANGED <<fs, fmeta, now, db, mem, last, cstate>>

\* ctx.derived["skills"] = the optimized candidates mined from the moments
HooksSkillMine ==
    /\ d.pc = "skill_mine"
    /\ d' = [d EXCEPT !.pc = "post_skill_mine"]
    /\ hist' = [hist EXCEPT !.trace = Append(@, "skill_mine")]
    /\ UNCHANGED <<fs, fmeta, now, db, mem, last, cstate>>

\* self.store.save_events(ctx.events); self.store.save_sessions(ctx.sessions)
HooksSave ==
    /\ d.pc = "save"
    /\ db' = [events   |-> SQLite_save_events(db.events, d.ctx.events).events,
              sessions |-> SQLite_save_sessions(db.sessions, d.ctx.sessions).sessions]
    /\ last' = [op |-> "save", events |-> d.ctx.events, sessions |-> d.ctx.sessions]
    /\ d' = [d EXCEPT !.pc = "saved"]
    /\ hist' = [hist EXCEPT !.trace = Append(@, "save")]
    /\ UNCHANGED <<fs, fmeta, now, mem, cstate>>

NextHooks ==
    \/ \E records \in HookBatches : HooksStart(records)
    \/ \E point \in HookPoints : HooksRun(point)
    \/ HooksNormalize
    \/ HooksSessionize
    \/ HooksMomentize
    \/ HooksExtract
    \/ HooksSkillMine
    \/ HooksSave

SpecHooks == InitHooks /\ [][NextHooks]_vars

---------------------------------------------------------------------------
(* SpecStores: the same calls of save_events, save_sessions and            *)
(* save_source_status made on an InMemoryStore (mem) and on a SQLiteStore  *)
(* (db).  The InMemoryStore keeps the objects it is given; the SQLiteStore *)
(* keeps rows, in which a timestamp is the text isoformat() gives.         *)

MaxStoreCalls == 3

\* The parameters of the INSERT INTO events: ts is
\* event.ts.astimezone(UTC).isoformat(), of a timestamp that is an instant.
EventRow(event) == [event EXCEPT !.ts = isoformat(@)]

\* sqlite._parse_event_ts(value), of a text with an offset
Store_parse_event_ts(value) == fromisoformat(ReplaceZ(value))

\* The Event a row of the events table is read as.
EventOfRow(row) == [row EXCEPT !.ts = Store_parse_event_ts(@)]

\* The parameters of the INSERT INTO sessions.
SessionRow(session) ==
    [session EXCEPT !.start_ts = isoformat(@), !.end_ts = isoformat(@)]

SessionOfRow(row) ==
    [row EXCEPT !.start_ts = Store_parse_event_ts(@), !.end_ts = Store_parse_event_ts(@)]

\* The parameters of the INSERT INTO source_status, without the key.
StatusRow(status) == [status EXCEPT !.last_poll_ts = isoformat(@)]

\* list_source_status: the SourceStatus a row is read as.
StatusOfRow(row) == [row EXCEPT !.last_poll_ts = fromisoformat(@)]

RowsOf(items, Row(_)) == [i \in DOMAIN items |-> Row(items[i])]

\* A variant that keeps the status a source already has.
InMemory_save_source_status_KeepingFirst(status_dict, source, status) ==
    IF source \in DOMAIN status_dict THEN status_dict
    ELSE Put(status_dict, source, status)

\* InMemoryStore.save_source_status: self.source_status[status.source] = status
InMemory_save_source_status(status_dict, source, status) ==
    Put(status_dict, source, status)

\* The arguments of the calls: lists of Events normalize_records builds (two
\* of the records share an event id and differ in the rest), the lists of
\* Sessions built from them, and statuses of two sources.
StoreEventBatches ==
    { normalize_records(b, clock) : b \in PipeBatches, clock \in {0, 1} }

StoreSessionBatches == { sessionize_events(events) : events \in StoreEventBatches }

StoreStatuses ==
    { SourceStatus("idle", 0, 0, 0, NoneStr), SourceStatus("error", 1, 0, 0, "boom"),
      SourceStatus("ingesting", 1, 2, 1, NoneStr) }

InitStores ==
    /\ fs = EmptyMap
    /\ fmeta = EmptyMap
    /\ now = 0
    /\ db = [events |-> {}, sessions |-> {}, source_status |-> EmptyMap]
    /\ mem = [events |-> EmptyMap, sessions |-> EmptyMap, source_status |-> EmptyMap]
    /\ last = [op |-> "none", memory |-> 0, sqlite |-> 0]
    /\ hist = [calls |-> 0, ignored |-> FALSE, replaced |-> FALSE]
    /\ cstate = EmptyMap
    /\ d = [pc |-> "none"]

\* save_events(events) on both stores
StoresSaveEvents(events) ==
    /\ hist.calls < MaxStoreCalls
    /\ LET m == InMemory_save_events(mem.events, events, 0)
           s == SQLite_save_events(db.events, RowsOf(events, EventRow))
       IN  /\ mem' = [mem EXCEPT !.events = m.events]
           /\ db' = [db EXCEPT !.events = s.events]
           /\ last' = [op |-> "save_events", memory |-> m.inserted, sqlite |-> s.inserted]
           /\ hist' = [hist EXCEPT !.calls = @ + 1,
                                   !.ignored = @ \/ m.inserted < Len(events)]
    /\ UNCHANGED <<fs, fmeta, now, cstate, d>>

\* save_sessions(sessions) on both stores
StoresSaveSessions(sessions) ==
    /\ hist.calls < MaxStoreCalls
    /\ LET m == InMemory_save_sessions(mem.sessions, sessions, 0)
           s == SQLite_save_sessions(db.sessions, RowsOf(sessions, SessionRow))
       IN  /\ mem' = [mem EXCEPT !.sessions = m.sessions]
           /\ db' = [db EXCEPT !.sessions = s.sessions]
           /\ last' = [op |-> "save_sessions", memory |-> m.inserted, sqlite |-> s.inserted]
           /\ hist' = [hist EXCEPT !.calls = @ + 1,
                                   !.ignored = @ \/ m.inserted < Len(sessions)]
    /\ UNCHANGED <<fs, fmeta, now, cstate, d>>

\* save_source_status(status) on both stores; it returns None
StoresSaveStatus(source, status) ==
    /\ hist.calls < MaxStoreCalls
    /\ mem' = [mem EXCEPT !.source_status = InMemory_save_source_status(@, source, status)]
    /\ db' = [db EXCEPT !.source_status = save_source_status(@, source, StatusRow(status))]
    /\ last' = [op |-> "save_source_status", memory |-> NoTs, sqlite |-> NoTs]
    /\ hist' = [hist EXCEPT !.calls = @ + 1,
                            !.replaced = @ \/ (source \in DOMAIN mem.source_status
                                               /\ mem.source_status[source] # status)]
    /\ UNCHANGED <<fs, fmeta, now, cstate, d>>

NextStores ==
    \/ \E events \in StoreEventBatches : StoresSaveEvents(events)
    \/ \E sessions \in StoreSessionBatches : StoresSaveSessions(sessions)
    \/ \E source \in {"terminal", "notes"}, status \in StoreStatuses :
           StoresSaveStatus(source, status)

SpecStores == InitStores /\ [][NextStores]_vars

---------------------------------------------------------------------------
(* SpecNormalize: normalize_records is applied to batches of records of    *)
(* two sources and two files, with and without session hints.              *)

NormalizeSources == {"terminal", "cursor"}

NormalizeFiles == {"/t/a.log", "/t/b.log"}

\* The session hints: None, the empty string, two texts, and a text equal
\* to the stable hash of "terminal:/t/a.log" (a hint is whatever the line's
\* session_id field holds).
NormalizeHints ==
    {NoneStr, "", "s", "t", stable_session_id("terminal:/t/a.log")}

NormalizeRecords ==
    { SourceRecord(source, file_path, 1, "a", NoTs, session_hint, "user") :
        source \in NormalizeSources, file_path \in NormalizeFiles,
        session_hint \in NormalizeHints }

\* The batches: of one record, of two records.
NormalizeBatches ==
    { <<r>> : r \in NormalizeRecords }
    \cup { <<r, s>> : r \in NormalizeRecords, s \in NormalizeRecords }

InitNormalize ==
    /\ fs = EmptyMap
    /\ fmeta = EmptyMap
    /\ now = 0
    /\ db = EmptyDb
    /\ mem = EmptyMem
    /\ last = [op |-> "none"]
    /\ hist = PipeHist0
    /\ cstate = EmptyMap
    /\ d = [pc |-> "idle", events |-> <<>>]

\* events = normalize_records(records)
NormalizeCall(records) ==
    /\ LET events == normalize_records(records, now)
       IN  /\ d' = [pc |-> "normalized", events |-> events]
           /\ last' = [op |-> "normalize", records |-> records, events |-> events]
    /\ UNCHANGED <<fs, fmeta, now, db, mem, hist, cstate>>

NextNormalize ==
    \/ PipeTick
    \/ \E records \in NormalizeBatches : NormalizeCall(records)

SpecNormalize == InitNormalize /\ [][NextNormalize]_vars

---------------------------------------------------------------------------
(* Claims on the incremental trawler (SpecTrawl).                          *)

\* An appended line the trawler turns into one record: not blank, and no
\* longer than max_line_bytes with its line terminator.
EmittableLine(text) == ~IsBlank(text) /\ Len(text) + 1 <= MaxLineBytes

C7_TruncateRewriteAsClaimed ==
    (last.op = "trawl" /\ last.limit = NoLimit /\ last.pre_truncated)
        => last.records = last.fresh

\* C8 as claimed: while the file does not change, every stored Event has the
\* identifier a single pass from offset 0 gives its line, and a call made
\* when every byte of the file had been read before inserts no Event.
C8_StableIdsAsClaimed ==
    hist.stable =>
        /\ \A row \in db.events :
              \E i \in DOMAIN last.fresh :
                  row.event_id = stable_event_id(last.fresh[i].source,
                                     last.fresh[i].file_path,
                                     last.fresh[i].line_number, last.fresh[i].content)
        /\ (last.op = "trawl" /\ last.pre_covered = last.size) => last.inserted = 0

---------------------------------------------------------------------------
(* Claims on the file-drop connector (SpecDrop).                           *)

\* C5: a poll given the state returned by the poll before, with no byte
\* written to any file in between, returns no record and a state equal to
\* the state it was given.
C5_IdempotentRepoll ==
    (last.op = "poll" /\ last.pre_polled /\ ~last.pre_dirty)
        => /\ last.records = <<>>
           /\ last.state = last.pre_state
           /\ last.stats.items_seen = 0

\* A second poll of two unchanged files, one of them ending in a line
\* without terminator, after a first poll that returned records.
C5_Witness ==
    /\ last.op = "poll" /\ last.pre_polled /\ ~last.pre_dirty
    /\ last.records = <<>>
    /\ DOMAIN fs = {"/c/a.jsonl", "/c/b.jsonl"}
    /\ fs["/c/a.jsonl"] = "a\na"
    /\ fs["/c/b.jsonl"] = "a\n"
    /\ last.state = [p \in {"/c/a.jsonl", "/c/b.jsonl"} |->
                        IF p = "/c/a.jsonl" THEN 2 ELSE 1]

---------------------------------------------------------------------------
(* Claims on normalization and the stores (SpecPipeline).                  *)

\* C9: two records with the same source, file path, line number and content
\* get the same Event identifier from normalize_records, in the same call
\* or in different calls, whatever their ts, actor, session hint or position
\* in the batch.
C9_DeterministicEventId ==
    \A p \in hist.seen : \A q \in hist.seen :
        RecordKey(p[1]) = RecordKey(q[1]) => p[2] = q[2]

\* Two records that agree on the four fields and differ in the others were
\* normalized in one batch, at positions 1 and 2, after time has passed
\* since the first of them was normalized in an earlier batch.
C9_Witness ==
    /\ last.op = "normalize"
    /\ Len(last.records) = 2
    /\ last.records[1] # last.records[2]
    /\ RecordKey(last.records[1]) = RecordKey(last.records[2])
    /\ last.events[1].event_id = last.events[2].event_id
    /\ last.events[1].ts # last.events[2].ts
    /\ last.events[1].actor # last.events[2].actor
    /\ last.events[1].session_id # last.events[2].session_id
    /\ hist.batches >= 2
    /\ now > 0

\* The identifiers of a batch that the store did not hold before the call.
NewIds(events, stored_ids) ==
    { events[i].event_id : i \in DOMAIN events } \ stored_ids

\* C10: save_events never overwrites an Event whose identifier is stored and
\* does not count it: the count returned is the number of identifiers the
\* call added, and saving the same batch again returns 0 and leaves the
\* stored Events unchanged.  Both stores.
C10_InsertOrIgnore ==
    /\ last.op = "save_memory" =>
         /\ \A id \in DOMAIN last.pre :
                id \in DOMAIN mem.events /\ mem.events[id] = last.pre[id]
         /\ DOMAIN mem.events = DOMAIN last.pre \cup NewIds(last.events, DOMAIN last.pre)
         /\ last.inserted = Cardinality(NewIds(last.events, DOMAIN last.pre))
         /\ last.again => (last.inserted = 0 /\ mem.events = last.pre)
    /\ last.op = "save_sqlite" =>
         /\ last.pre \subseteq db.events
         /\ \A r1 \in db.events : \A r2 \in db.events :
                r1.event_id = r2.event_id => r1 = r2
         /\ { r.event_id : r \in db.events } =
                { r.event_id : r \in last.pre }
                    \cup NewIds(last.events, { r.event_id : r \in last.pre })
         /\ last.inserted =
                Cardinality(NewIds(last.events, { r.event_id : r \in last.pre }))
         /\ last.again => (last.inserted = 0 /\ db.events = last.pre)

\* A batch of two Events with one identifier, a different Event of that
\* identifier being stored already, is saved to the InMemoryStore for the
\* second time in a row.
C10_Witness ==
    /\ last.op = "save_memory"
    /\ last.again
    /\ last.inserted = 0
    /\ Len(last.events) = 2
    /\ last.events[1].event_id = last.events[2].event_id
    /\ last.events[1] # last.events[2]
    /\ \E id \in DOMAIN mem.events :
           /\ id = last.events[1].event_id
           /\ mem.events[id] # last.events[1]
           /\ mem.events[id] # last.events[2]

---------------------------------------------------------------------------
(* Claims on the daemon (SpecDaemon).                                      *)

EventIdOf(record) ==
    stable_event_id(record.source, record.file_path, record.line_number,
                    record.content)

StoredIds == { e.event_id : e \in db.events }

\* What a process started now would load for a source from the state file.
DiskState(source) == Get(load_state(cstate), source, EmptyMap)

\* The records a poll of the source from the state file's state returns.
Replayed(source) == Range(FileDropPoll(source, fs, DiskState(source)).records)

\* C1: as long as no step has raised, whatever crashes and restarts there
\* were: the state file records no progress past a kept record whose Event
\* is not in the store, and a poll from the state file's state returns that
\* record again; the store holds at most one Event per identifier and only
\* Events of kept records; and when a cycle has ended with its state write,
\* the store holds the Event of every kept record.
C1_AtLeastOnce ==
    ~hist.raised =>
        /\ \A r \in hist.kept :
               EventIdOf(r) \notin StoredIds =>
                   /\ Get(DiskState(r.source), r.file_path, 0) < r.line_number
                   /\ r \in Replayed(r.source)
        /\ \A e1 \in db.events : \A e2 \in db.events :
               e1.event_id = e2.event_id => e1 = e2
        /\ \A e \in db.events : \E r \in hist.kept : EventIdOf(r) = e.event_id
        /\ d.pc = "cycle_end" => \A r \in hist.kept : EventIdOf(r) \in StoredIds

\* A second process, started after the first was killed between save_events
\* and the state write, has replayed a kept record (its audit counts a
\* record and no new Event) and ended its cycle with the state write; both
\* sources have kept records.
C1_Witness ==
    /\ ~hist.raised
    /\ hist.starts = 2
    /\ d.pc = "cycle_end"
    /\ \E i \in DOMAIN db.audits :
           db.audits[i].records > 0 /\ db.audits[i].event_count = 0
    /\ { r.source : r \in hist.kept } = Range(DaemonSources)
    /\ \A r \in hist.kept : EventIdOf(r) \in StoredIds
    /\ cstate.kind = "yaml"
    /\ DOMAIN cstate.per_source = Range(DaemonSources)

\* C2: when a write to the store failed while the records of a source were
\* being persisted in a cycle, the state written at the end of that cycle
\* does not put the source's checkpoint past those records: a poll from the
\* state file's state returns them again.
C2_StoreFailureKeepsCheckpoint ==
    d.pc = "cycle_end" =>
        \A s \in DOMAIN d.failed :
            \A i \in DOMAIN d.failed[s] : d.failed[s][i] \in Replayed(s)

\* The for loop over the sources has just been left: by its end, or by an
\* exception that left run().
LoopLeft == d.pc \in {"save_state", "aborted"}

\* The try body of a source ran to its end in this cycle: its summary and
\* its status are those of a source that did not fail.
Completed(s) ==
    /\ s \in d.polled
    /\ \E i \in DOMAIN d.cycle_summary :
           d.cycle_summary[i].source = s /\ d.cycle_summary[i].status # "error"
    /\ s \in DOMAIN db.source_status
    /\ db.source_status[s].status # "error"

AllPolledAndStateWriteNext ==
    /\ d.pc = "save_state"
    /\ d.polled = Range(DaemonSources)
    /\ \A s \in Range(DaemonSources) \ d.raised : Completed(s)

ErrorShown(s) ==
    /\ s \in DOMAIN db.source_status
    /\ db.source_status[s].status = "error"
    /\ db.source_status[s].error_message # NoneStr
    /\ \E i \in DOMAIN d.cycle_summary :
           /\ d.cycle_summary[i].source = s
           /\ d.cycle_summary[i].status = "error"
           /\ d.cycle_summary[i].error_message = db.source_status[s].error_message

-----------------------------------------------------------------------------
(* C11 -- the state file is written once per cycle, after the sources.      *)

-----------------------------------------------------------------------------
(* C12 -- a stop request does not interrupt the cycle in progress.          *)

\* C12: when run() has returned (the running flag was cleared, or once mode)
\* after a cycle had started, every source of the last cycle was attempted
\* and the state file holds the state, written once in that cycle.
C12_StopNeverInterrupts ==
    (d.pc = "done" /\ d.cycled) =>
        /\ d.polled = Range(DaemonSources)
        /\ d.state_writes = 1
        /\ cstate = save_state(d.state)

\* stop() ran in the middle of a cycle of a continuous run, and run() has
\* returned after the remaining sources and the state write.
C12_Witness ==
    /\ d.pc = "done"
    /\ ~d.once
    /\ ~d.running
    /\ d.stop_in_cycle
    /\ d.polled = Range(DaemonSources)
    /\ d.state_writes = 1
    /\ cstate = save_state(d.state)

-----------------------------------------------------------------------------
(* C13 -- after a stop request the daemon stops (SpecDaemonFair).           *)

-----------------------------------------------------------------------------
(* C14 -- the sleep between two cycles.                                     *)

\* C14: between two cycles of a continuous run the daemon sleeps if and only
\* if total_records, the count of the records the polls of the finished
\* cycle returned and the filters kept, is zero; a once run never sleeps.
C14_SleepIffNoRecords ==
    /\ (d.cycled /\ d.pc \in {"loop", "sleep"}) =>
           /\ ~d.once
           /\ d.slept <=> (d.total_records = 0)
    /\ d.pc = "sleep" => d.slept
    /\ d.once => ~d.slept

\* A continuous run sleeps after a cycle with no record, an earlier cycle
\* having stored events.
C14_Witness ==
    /\ d.pc = "sleep"
    /\ ~d.once
    /\ d.total_records = 0
    /\ d.polled = Range(DaemonSources)
    /\ db.events # {}

-----------------------------------------------------------------------------
(* C15 -- the state a poll receives, and what changes the stored state.     *)

\* C15: at every step the state the daemon holds for each source, which is
\* what the next poll of that source receives, is the state returned by the
\* latest poll of that source that did not raise, or the state loaded at
\* startup when there is none; so a poll that raises, and every step taken
\* for another source, leave it as it was.
C15_PollStateIsLastReturned ==
    Alive => \A s \in Range(DaemonSources) :
                 Get(d.state, s, EmptyMap) = Get(d.returned, s, EmptyMap)

\* The second source is about to be polled with the state its poll returned
\* in an earlier cycle, after the poll of the first source raised in this
\* cycle and left the state of the first source alone, as the state file
\* has it.
C15_Witness ==
    /\ d.pc = "poll"
    /\ Source = "notes"
    /\ "terminal" \in d.raised
    /\ "notes" \in DOMAIN d.state
    /\ d.state["notes"] # EmptyMap
    /\ "terminal" \in DOMAIN d.state
    /\ d.state["terminal"] = load_state(cstate)["terminal"]
    /\ d.state["terminal"] # EmptyMap
    /\ d.state = d.returned

-----------------------------------------------------------------------------
(* C16 -- poll leaves the dict it is given alone (SpecPollTwice).           *)

-----------------------------------------------------------------------------
(* C17 -- the checkpoint of a call that stopped on the emission limit.      *)

\* What one call with an empty state and no emission limit yields for a
\* file of the given content.
SinglePass(content) ==
    ContentsOf(Trawler_iter_new_records(TrawlSource,
                   [p \in {TrawlPath} |-> content], [p \in {TrawlPath} |-> content],
                   [p \in {TrawlPath} |-> [inode |-> 1, mtime_ns |-> 0]],
                   EmptyMap, NoLimit).records)

\* The lines of the content without their terminators.
StrippedLines(content) ==
    [i \in DOMAIN FileLines(content) |-> RStripNewline(FileLines(content)[i])]

NotBlank(text) == ~IsBlank(text)

\* The bytes of the file up to the checkpoint the latest call left.
ReadSoFar == IF last.offset > 0 THEN SubSeq(last.content, 1, last.offset) ELSE ""

\* The latest call stopped on the emission limit.
StoppedOnLimit == last.limit # NoLimit /\ Len(last.records) >= last.limit

\* C17: over a file that does not change, after every call (and before the
\* state it left is reset) the records
\* yielded since the state was empty are what a single pass yields for the
\* bytes up to the checkpoint, each once and in file order (when no line
\* there is over-long: the lines that are not blank); and when the call
\* stopped on the emission limit the checkpoint is the byte position just
\* after the text and the terminator of the last record emitted.
C17_LimitCheckpoint ==
    (last.op = "trawl" /\ hist.stable /\ OffsetIn(cstate) = last.offset) =>
        /\ hist.emitted = SinglePass(ReadSoFar)
        /\ (\A i \in DOMAIN StrippedLines(ReadSoFar) :
               Len(StrippedLines(ReadSoFar)[i]) + 1 <= MaxLineBytes)
               => hist.emitted = SelectSeq(StrippedLines(ReadSoFar), NotBlank)
        /\ StoppedOnLimit =>
               /\ last.offset > 0
               /\ Char(last.content, last.offset) = NL
               /\ LET content == last.records[Len(last.records)].content
                  IN  /\ last.offset > Len(content)
                      /\ SubSeq(last.content, last.offset - Len(content),
                                last.offset - 1) = content

\* The second call with limit 1 over an unchanged file of three lines: it
\* resumed after the first line, emitted the second and left the checkpoint
\* after it, in the middle of the file.
C17_Witness ==
    /\ last.op = "trawl"
    /\ hist.stable
    /\ last.limit = 1
    /\ last.content = "a" \o NL \o "b" \o NL \o "a" \o NL
    /\ last.pre_offset = 2
    /\ last.offset = 4
    /\ ContentsOf(last.records) = <<"b">>
    /\ hist.emitted = <<"a", "b">>

-----------------------------------------------------------------------------
(* C18 -- a line the writer has not finished (SpecDrop).                    *)

\* The file ends in a line without its terminator.
EndsInPartialLine(content) ==
    Len(content) > 0 /\ Char(content, Len(content)) # NL

\* C18 as stated: when a file ends in a line without terminator at the time
\* of a poll, the poll returns no record for that line and the progress it
\* returns for the file stays below the number of that line.
C18_PartialLineAsClaimed ==
    last.op = "poll" =>
        \A p \in DOMAIN last.files :
            EndsInPartialLine(last.files[p]) =>
                LET n == Len(FileLines(last.files[p]))
                IN  /\ Get(last.state, p, 0) < n
                    /\ \A i \in DOMAIN last.records :
                           ~(last.records[i].file_path = p
                             /\ last.records[i].line_number = n)

-----------------------------------------------------------------------------
(* C19 -- lines longer than max_line_bytes (SpecTrawl).                     *)

\* C19 as stated: the records a call with an empty state yields are whole
\* lines of the file, none of them a line longer than max_line_bytes with
\* its terminator or a piece of one, and the call leaves the checkpoint at
\* the end of the file it read.
C19_OverlongLineAsClaimed ==
    (last.op = "trawl" /\ last.pre_offset = NoTs /\ last.limit = NoLimit) =>
        /\ \A i \in DOMAIN last.records :
               \E j \in DOMAIN StrippedLines(last.content) :
                   /\ StrippedLines(last.content)[j] = last.records[i].content
                   /\ Len(StrippedLines(last.content)[j]) + 1 <= MaxLineBytes
        /\ last.offset = IF last.content = "" THEN NoTs ELSE Len(last.content)

-----------------------------------------------------------------------------
(* C20 -- the checkpoint offset never decreases (SpecTrawl).                *)

\* C20: when the state held a checkpoint for the file and the file was not
\* truncated since the call before (its inode is kept throughout), the
\* offset a call leaves is at least the offset it found, also when a writer
\* appended to the file between the stat and the read of the call.
C20_OffsetNeverDecreases ==
    (/\ last.op \in {"trawl", "trawl during append"}
     /\ last.pre_offset # NoTs
     /\ ~last.pre_truncated)
        => last.offset >= last.pre_offset

\* A call resumed from a checkpoint inside the file while a writer appended
\* a line: it read past the size it had stat'ed, and the offset it left is
\* beyond that size and beyond the offset it found.
C20_Witness ==
    /\ last.op = "trawl during append"
    /\ ~last.pre_truncated
    /\ last.pre_offset = 2
    /\ last.size = 4
    /\ last.offset = 6
    /\ Len(last.records) = 2

-----------------------------------------------------------------------------
(* C21 -- a file truncated and rewritten under the file-drop connector.     *)

\* Line n of the content, without its terminator ("" when there is none).
LineText(content, n) ==
    IF n \in DOMAIN FileLines(content) THEN RStripNewline(FileLines(content)[n])
    ELSE ""

\* C21 as stated: when a file the state held progress for was truncated and
\* rewritten since the poll before, the poll returns a record for every
\* line of the new content that is not blank and is not the text the old
\* content had at that line.
C21_RewrittenFileAsClaimed ==
    last.op = "poll" =>
        \A p \in DOMAIN last.pre_truncated :
            \A n \in DOMAIN FileLines(last.files[p]) :
                (/\ LineText(last.files[p], n) # LineText(last.pre_truncated[p], n)
                 /\ ~IsBlank(LineText(last.files[p], n))) =>
                    \E i \in DOMAIN last.records :
                        /\ last.records[i].file_path = p
                        /\ last.records[i].line_number = n

(* C22 -- a chain of polls of the iMessage connector over chat.db.         *)
\* The watermark of a state dict.
LastRowid(state) == Get(state, "last_rowid", 0)

\* The messages the polls of the chain are to return, Wanted(text) telling
\* which texts count: no poll lowers the watermark, no message is returned
\* by two polls, a message that does not count is returned by none, a
\* message that counts and lies at or below the watermark was returned, and
\* after a poll that returned fewer rows than the limit every message that
\* counts was returned.
ChainReturns(Wanted(_)) ==
    /\ (last.op = "poll" /\ last.connector = "imessage") =>
           LastRowid(last.first.state) >= LastRowid(last.argument)
    /\ \A i \in DOMAIN mem :
           LET polls == Get(hist.returned, i, 0)
           IN  /\ polls <= 1
               /\ ~Wanted(mem[i]) => polls = 0
               /\ (Wanted(mem[i]) /\ i <= LastRowid(cstate.imessage)) => polls = 1
               /\ (/\ Wanted(mem[i])
                   /\ last.op = "poll" /\ last.connector = "imessage"
                   /\ Len(last.first.records) < IMessageLimit) => polls = 1

NonEmptyText(text) == text # NoneStr /\ text # ""

TextAfterTrim(text) == text # NoneStr /\ ~IsBlank(text)

\* C22 as stated: across a chain of polls, each given the state the one
\* before returned, last_rowid never decreases and every message with
\* non-empty text is returned by exactly one poll.
C22_ChainAsClaimed == ChainReturns(NonEmptyText)

\* C22, amended: across a chain of polls, each given the state the one
\* before returned, last_rowid never decreases and every message whose text
\* is not NULL and not empty once its spaces are trimmed is returned by
\* exactly one poll, also when more than the limit are waiting; a message
\* whose text is NULL or only spaces is returned by none.
C22_Chain == ChainReturns(TextAfterTrim)

\* Two messages with text waited at one poll, one more than the limit, and
\* each has been returned by one poll.
C22_Witness ==
    /\ hist.backlog
    /\ Len(mem) = 2
    /\ \A i \in DOMAIN mem : TextAfterTrim(mem[i]) /\ Get(hist.returned, i, 0) = 1
    /\ LastRowid(cstate.imessage) = 2

(* C23 -- the turn indices normalize_records gives within a batch.         *)
\* C23: the Events of a batch follow its records one for one, and the turn
\* index of each Event is the number of Events before it in the batch that
\* have its session identifier: per session the indices run 0, 1, 2, ... in
\* batch order, whatever lies between.
C23_TurnIndices ==
    last.op = "normalize" =>
        /\ Len(last.events) = Len(last.records)
        /\ \A i \in DOMAIN last.events :
               /\ last.events[i].content = last.records[i].content
               /\ last.events[i].source = last.records[i].source
               /\ last.events[i].turn_index =
                      Cardinality({j \in 1..(i - 1) :
                                     last.events[j].session_id = last.events[i].session_id})

\* A batch of three records was normalized whose first and third belong to
\* one session and whose second belongs to another.
C23_Witness ==
    /\ last.op = "normalize"
    /\ Len(last.events) = 3
    /\ last.events[1].session_id = last.events[3].session_id
    /\ last.events[2].session_id # last.events[1].session_id
    /\ last.events[2].turn_index = 0
    /\ last.events[3].turn_index = 1

(* C24 -- what SourceFilterPipeline.apply keeps.                           *)
\* C24: apply keeps, in the order of the batch, exactly the records that
\* every predicate of the pipeline accepts, counts the others as dropped,
\* and a pipeline holding the same predicates in another order keeps the
\* same records.
C24_KeepsIffAllAccept ==
    last.op \in {"apply", "reordered"} =>
        LET accepted(record) == \A predicate \in Range(last.filters) :
                                    Accepts(predicate, record)
        IN  /\ last.kept = SelectSeq(last.records, accepted)
            /\ last.dropped = Len(last.records) - Len(last.kept)
            /\ last.kept_reordered = last.kept

\* Two predicates that reject different records of a batch of two were
\* applied in both orders.
C24_Witness ==
    /\ last.op = "reordered"
    /\ Len(last.filters) = 2
    /\ Len(last.records) = 2
    /\ last.order = <<last.filters[2], last.filters[1]>>
    /\ Accepts(last.filters[1], last.records[1])
    /\ ~Accepts(last.filters[2], last.records[1])
    /\ ~Accepts(last.filters[1], last.records[2])
    /\ Accepts(last.filters[2], last.records[2])
    /\ last.kept = <<>>

(* C25 -- predicates on optional fields and records that lack the field.   *)
\* The predicate is active and tests a field the record lacks: a since or
\* until filter with a bound and a record without timestamp, a group filter
\* with terms and a record with neither group hint nor session hint.
TestsMissingField(predicate, record) ==
    \/ /\ predicate.kind \in {"since", "until"}
       /\ predicate.bound # NoTs
       /\ record.ts = NoTs
    \/ /\ predicate.kind \in {"include_groups", "exclude_groups"}
       /\ normalized_terms(predicate.needles) # <<>>
       /\ record.group_hint = NoneStr
       /\ record.session_hint = NoneStr

\* C25 as stated: a record that lacks the field an active predicate of the
\* pipeline tests is not among the records apply keeps.
C25_MissingFieldAsClaimed ==
    last.op \in {"apply", "reordered"} =>
        \A predicate \in Range(last.filters), record \in Range(last.records) :
            TestsMissingField(predicate, record) => record \notin Range(last.kept)

(* C26 -- the Sessions sessionize_events builds from a batch of Events.    *)
\* The Events of the batch that have the source and the session identifier
\* of the Session.
MembersOf(events, session) ==
    {j \in DOMAIN events : /\ events[j].source = session.source
                           /\ events[j].session_id = session.session_id}

\* Event a is not after Event b by (timestamp, turn index).
NotAfter(a, b) == a.ts < b.ts \/ (a.ts = b.ts /\ a.turn_index <= b.turn_index)

\* C26: sessionize_events returns one Session for each (source, session
\* identifier) of the batch and no other; a Session's key is its session
\* identifier, its start and end are the least and the greatest timestamp
\* of its members, its summary is the first 160 characters of the content
\* of the member that is first by (timestamp, turn index), and its event
\* count is the number of its members.
C26_Sessions ==
    last.op = "sessionize" =>
        LET events   == last.events
            sessions == last.sessions
            keys     == {<<events[j].source, events[j].session_id>> : j \in DOMAIN events}
        IN  /\ Len(sessions) = Cardinality(keys)
            /\ \A key \in keys :
                   \E i \in DOMAIN sessions :
                       <<sessions[i].source, sessions[i].session_id>> = key
            /\ \A i \in DOMAIN sessions :
                   LET s == sessions[i]
                       members == MembersOf(events, s)
                   IN  /\ members # {}
                       /\ s.session_key = s.session_id
                       /\ \A j \in members : s.start_ts <= events[j].ts
                       /\ \E j \in members : s.start_ts = events[j].ts
                       /\ \A j \in members : s.end_ts >= events[j].ts
                       /\ \E j \in members : s.end_ts = events[j].ts
                       /\ s.event_count = Cardinality(members)
                       /\ \E j \in members :
                              /\ \A k \in members : NotAfter(events[j], events[k])
                              /\ s.summary = SubSeq(events[j].content, 1,
                                                    Min(SummaryChars, Len(events[j].content)))

\* A batch of two sessions was sessionized: in one the member that is first
\* by timestamp comes later in the batch, in the other the content is
\* longer than the summary.
C26_Witness ==
    /\ last.op = "sessionize"
    /\ Len(last.sessions) = 2
    /\ \E i \in DOMAIN last.sessions :
           LET s == last.sessions[i]
               members == MembersOf(last.events, s)
           IN  /\ s.event_count = 2
               /\ s.start_ts < s.end_ts
               /\ \E j, k \in members : /\ j < k
                                         /\ last.events[k].ts < last.events[j].ts
                                         /\ s.summary = last.events[k].content
    /\ \E i \in DOMAIN last.sessions :
           LET s == last.sessions[i]
           IN  /\ Len(s.summary) = SummaryChars
               /\ \E j \in MembersOf(last.events, s) :
                      Len(last.events[j].content) > SummaryChars

(* C27 -- saving a Session whose key is already stored.                    *)
\* The Sessions the store of the process holds.
StoredSessions == IF d.store = "memory" THEN Range(mem.sessions) ELSE db.sessions

\* C27: save_sessions leaves every stored Session as it was, stores at most
\* one Session per session key, and returns the number of keys it added, so
\* a Session of a stored key is not counted; the start, end and summary
\* stored for a key stay those of the Session first stored for it, whatever
\* later batches bring.
C27_StoredSessionUnchanged ==
    /\ last.op \in {"save_memory", "save_sqlite"} =>
           /\ last.pre \subseteq last.post
           /\ \A s, u \in last.post : s.session_key = u.session_key => s = u
           /\ \A s \in last.post : s \in last.pre \/ s \in Range(last.sessions)
           /\ last.inserted = Cardinality(last.post) - Cardinality(last.pre)
           /\ last.inserted =
                  Cardinality({s.session_key : s \in Range(last.sessions)}
                              \ {s.session_key : s \in last.pre})
    /\ \A s \in StoredSessions :
           /\ <<d.store, s.session_key>> \in DOMAIN hist.first
           /\ s.start_ts = hist.first[<<d.store, s.session_key>>].start_ts
           /\ s.end_ts = hist.first[<<d.store, s.session_key>>].end_ts
           /\ s.summary = hist.first[<<d.store, s.session_key>>].summary

\* A batch brought a Session for a stored key with an earlier start and
\* another summary; it was saved and nothing was inserted.
C27_Witness ==
    /\ last.op \in {"save_memory", "save_sqlite"}
    /\ last.inserted = 0
    /\ last.post = last.pre
    /\ \E s \in Range(last.sessions), u \in last.pre :
           /\ s.session_key = u.session_key
           /\ s.start_ts < u.start_ts
           /\ s.summary # u.summary

(* C28 -- the SourceStatus rows after the cycles.                          *)
\* The summaries the cycle in progress has appended for the source.
SummariesOf(source) ==
    SelectSeq(d.cycle_summary, LAMBDA e : e.source = source)

\* The cycle has written the status of the source: a summary of it is
\* there, and the process is not between that summary and the write.
StatusWritten(source) ==
    /\ SummariesOf(source) # <<>>
    /\ ~(Source = source /\ d.pc \in {"except", "aborted"})

\* C28: the status table holds one row per source name, of configured
\* sources only; once a cycle has written the status of a source the row is
\* the one that cycle wrote last for it (status, counts, error message and
\* poll time), and a row written after a poll that succeeded holds no error
\* message, whatever the row before held.
C28_StatusIsLatest ==
    /\ DOMAIN db.source_status \subseteq Range(DaemonSources)
    /\ \A s \in Range(DaemonSources) :
           StatusWritten(s) =>
               LET e == SummariesOf(s)[Len(SummariesOf(s))]
               IN  /\ s \in DOMAIN db.source_status
                   /\ db.source_status[s] =
                          SourceStatus(e.status, now, e.records_seen,
                                       e.records_ingested, e.error_message)
    /\ \A s \in d.cleared :
           StatusWritten(s) => db.source_status[s].error_message = NoneStr

\* A cycle has ended in which the status written for a source replaced a
\* row that held an error message.
C28_Witness ==
    /\ d.pc = "cycle_end"
    /\ \E s \in d.cleared :
           /\ db.source_status[s].status \in {"idle", "ingesting"}
           /\ db.source_status[s].error_message = NoneStr

(* C29 -- the IngestAudit records of a cycle.                              *)
\* C29 as stated: when the sources of a cycle have been handled, one
\* IngestAudit record has been appended in the cycle for each source that
\* was polled in it.
C29_AuditPerSourceAsClaimed ==
    d.pc = "save_state" =>
        \A s \in d.polled : Get(d.audited, s, 0) = 1

(* C30 -- a state file that cannot be read.                                *)
\* C30 as stated: no daemon fails at startup because of the state file.
C30_UnreadableStateAsClaimed ==
    ~(d.pc = "aborted" /\ ~d.cycled /\ d.exc = "state file unreadable")

---------------------------------------------------------------------------
(* Claims on the spool (SpecSpool).                                        *)

RECURSIVE SumRecordCounts(_)
SumRecordCounts(segments) ==
    IF segments = <<>> THEN 0
    ELSE Head(segments).record_count + SumRecordCounts(Tail(segments))

\* What C34 says of a write_records followed by iter_records over the
\* returned segments.
SpoolRoundTrip ==
    /\ last.yielded = last.records
    /\ \A i \in DOMAIN last.segments :
           /\ last.segments[i].record_count <= d.max_records_per_segment
           /\ Len(fs[last.segments[i].path]) = last.segments[i].record_count
    /\ SumRecordCounts(last.segments) = Len(last.records)

\* C34 as claimed: write_records followed by iter_records over the returned
\* segments yields the written records in the same order with the same field
\* values; no segment holds more than max_records_per_segment records, and
\* the segments' record counts sum to the number of records written.
C34_RoundTripAsClaimed == last.op = "iter" => SpoolRoundTrip

\* C34, amended: the same, for a spool whose max_records_per_segment is at
\* least 1 (with a smaller one every segment holds one record).
C34_RoundTrip ==
    (last.op = "iter" /\ d.max_records_per_segment >= 1) => SpoolRoundTrip

\* Records with and without a timestamp were written to more than one
\* segment, one of them full, and read back.
C34_Witness ==
    /\ last.op = "iter"
    /\ d.max_records_per_segment >= 2
    /\ Len(last.segments) >= 2
    /\ \E i \in DOMAIN last.segments :
           last.segments[i].record_count = d.max_records_per_segment
    /\ \E i, j \in DOMAIN last.records :
           last.records[i].ts # NoTs /\ last.records[j].ts = NoTs
    /\ last.pre # {}

---------------------------------------------------------------------------
(* Claims on the run_ingest script (SpecIngest).                           *)

\* The segments written so far that are no longer on disk.
DeletedSegments == DOMAIN hist.written \ DOMAIN fs

\* The Events of the rows of a segment are in the store.
RowsStored(path) ==
    \A i \in DOMAIN hist.written[path].rows :
        EventIdOf(SpoolRecordOf(hist.written[path].rows[i])) \in StoredIds

C39_SpoolEmptiedAsClaimed ==
    (d.pc = "done" /\ ~last.keep_spool) =>
        \A p \in DOMAIN hist.written :
            hist.written[p].run = hist.runs => p \notin DOMAIN fs

---------------------------------------------------------------------------
(* Claims on the order of the polls in a daemon cycle (SpecDaemon).        *)

\* The names of the enabled sources of the configuration, in its order.
EnabledSources ==
    LET enabled == SelectSeq(ConfigSources, LAMBDA s : s.enabled)
    IN  [i \in DOMAIN enabled |-> enabled[i].name]

\* A cycle that handles every enabled source once, in order and one at a
\* time: the poll of the first, the end of its loop body, the poll of the
\* second, and so on.
SequentialCycle ==
    [k \in 1..(2 * Len(EnabledSources)) |->
        <<IF k % 2 = 1 THEN "poll" ELSE "end", EnabledSources[(k + 1) \div 2]>>]

\* What the cycle has done so far is the beginning of the sequential cycle,
\* and no source it polled is disabled.
SequentialSoFar ==
    /\ Len(d.steps) <= Len(SequentialCycle)
    /\ d.steps = SubSeq(SequentialCycle, 1, Len(d.steps))
    /\ \A k \in DOMAIN d.steps :
           \E i \in DOMAIN ConfigSources :
               ConfigSources[i].name = d.steps[k][2] /\ ConfigSources[i].enabled

---------------------------------------------------------------------------
(* Claims on the hooks of _process_records (SpecHooks).                    *)

\* The order of the steps C33 gives: the extension points and stages, and
\* persistence last.
StagesInOrder ==
    <<"pre_normalize", "normalize", "post_normalize", "sessionize", "post_sessionize",
      "momentize", "post_momentize", "extract", "post_extract", "skill_mine",
      "post_skill_mine", "save">>

\* The calls made at an extension point, in the order they were made.
CallsAt(point) == SelectSeq(hist.calls, LAMBDA c : c.stage = point)

\* The hooks of an extension point were called in registration order, each
\* receiving what the one before returned.
InRegistrationOrder(point) ==
    LET calls == CallsAt(point)
    IN  /\ Len(calls) <= Len(d.hooks[point])
        /\ \A i \in DOMAIN calls :
               /\ calls[i].hook = d.hooks[point][i]
               /\ i > 1 => calls[i].received = calls[i - 1].returned

\* The Events of a list, by event id the first of each id.
FirstById(events) ==
    { events[i] : i \in { j \in DOMAIN events :
                            \A k \in 1..(j - 1) : events[k].event_id # events[j].event_id } }

FirstByKey(sessions) ==
    { sessions[i] : i \in { j \in DOMAIN sessions :
                              \A k \in 1..(j - 1) :
                                  sessions[k].session_key # sessions[j].session_key } }

\* C33: within the processing of one source the stages run in the fixed
\* order pre-normalize hooks, normalize, post-normalize hooks, sessionize,
\* post-sessionize hooks, and persistence comes after all hooks; the hooks of
\* one stage run in registration order, each receiving the context returned
\* by the previous one; and the Events and Sessions persisted are those of
\* the context returned by the last hook (nothing is persisted when a hook
\* raised).
C33_HookOrder ==
    /\ hist.trace = SubSeq(StagesInOrder, 1, Len(hist.trace))
    /\ \A point \in HookPoints : InRegistrationOrder(point)
    /\ d.pc = "saved" =>
           /\ hist.trace = StagesInOrder
           /\ \A point \in HookPoints : Len(CallsAt(point)) = Len(d.hooks[point])
           /\ db.events = FirstById(last.events)
           /\ db.sessions = FirstByKey(last.sessions)
           /\ hist.calls # <<>> =>
                  LET c == hist.calls[Len(hist.calls)]
                  IN  /\ c.stage # "pre_normalize" => last.events = c.returned.events
                      /\ c.stage \notin {"pre_normalize", "post_normalize"}
                             => last.sessions = c.returned.sessions
                      /\ c.stage = "post_normalize"
                             => last.sessions = sessionize_events(c.returned.events)
    /\ d.pc # "saved" => db.events = {} /\ db.sessions = {}

\* Two hooks registered after normalize and two after sessionize ran on a
\* batch of two Events, in different orders, and the result was persisted:
\* the Events stored are not the ones normalize produced.
C33_Witness ==
    /\ d.pc = "saved"
    /\ d.hooks["post_normalize"] = <<"mark_first", "drop_first">>
    /\ d.hooks["post_sessionize"] = <<"drop_first", "mark_first">>
    /\ Len(hist.calls) = 4
    /\ Len(last.events) = 0
    /\ Len(last.sessions) = 1

---------------------------------------------------------------------------
(* Claims on the two stores (SpecStores).                                  *)

\* C35: for every sequence of save_events, save_sessions and
\* save_source_status calls, the in-memory backend and the SQLite backend
\* return the same inserted counts and end with the same stored keys and the
\* same stored value for each key (a row of the SQLite backend read back as
\* the object it stands for).
C35_StoresAgree ==
    /\ last.memory = last.sqlite
    /\ Range(mem.events) = { EventOfRow(row) : row \in db.events }
    /\ Cardinality(db.events) = Cardinality(DOMAIN mem.events)
    /\ \A k \in DOMAIN mem.events : mem.events[k].event_id = k
    /\ Range(mem.sessions) = { SessionOfRow(row) : row \in db.sessions }
    /\ Cardinality(db.sessions) = Cardinality(DOMAIN mem.sessions)
    /\ \A k \in DOMAIN mem.sessions : mem.sessions[k].session_key = k
    /\ DOMAIN mem.source_status = DOMAIN db.source_status
    /\ \A k \in DOMAIN mem.source_status :
           mem.source_status[k] = StatusOfRow(db.source_status[k])

\* An Event whose id was already stored was given to save_events, which
\* ignored it in both stores, and the status of a source was replaced by a
\* different one.
C35_Witness ==
    /\ hist.ignored
    /\ hist.replaced
    /\ last.op = "save_events"
    /\ last.memory = 1
    /\ last.sqlite = 1
    /\ \E k \in DOMAIN mem.source_status : mem.source_status[k].error_message = "boom"

---------------------------------------------------------------------------
(* Claims on the session identifier (SpecNormalize).                       *)

\* A hint that is None or empty counts as no hint.
NoHint(record) == record.session_hint \in {NoneStr, ""}

\* sha256(source ":" file_path)[:16], written out.
HashOfFile(record) ==
    "sha16(" \o record.source \o ":" \o record.file_path \o ")"

\* The part of the identifier behind the source and the colon.
C36_Raw(record) ==
    IF NoHint(record) THEN HashOfFile(record) ELSE record.session_hint

SameSessionAsClaimed(r, s) ==
    /\ r.source = s.source
    /\ \/ ~NoHint(r) /\ ~NoHint(s) /\ r.session_hint = s.session_hint
       \/ NoHint(r) /\ NoHint(s) /\ r.file_path = s.file_path

\* C36 as stated: two records of a batch get the same session identifier
\* exactly when they have the same source and either the same session hint
\* or no session hint and the same file path.
C36_SessionIdAsClaimed ==
    last.op = "normalize" =>
        \A i \in DOMAIN last.records : \A j \in DOMAIN last.records :
            (last.events[i].session_id = last.events[j].session_id)
                <=> SameSessionAsClaimed(last.records[i], last.records[j])

\* C36 (amended): the session identifier is the source, a colon, and the
\* session hint when the hint is not empty, otherwise the stable hash of
\* source ":" file path; two records get the same identifier exactly when
\* they have the same source and the same such part, which is the case for
\* equal non-empty hints, for no hints and one file path, and also for a
\* hint that equals the hash of the other record's source and file path.
C36_SessionId ==
    last.op = "normalize" =>
        \A i \in DOMAIN last.records : \A j \in DOMAIN last.records :
            LET r == last.records[i]
                s == last.records[j]
            IN  /\ last.events[i].session_id = r.source \o ":" \o C36_Raw(r)
                /\ (last.events[i].session_id = last.events[j].session_id)
                       <=> (r.source = s.source /\ C36_Raw(r) = C36_Raw(s))
                /\ SameSessionAsClaimed(r, s)
                       => last.events[i].session_id = last.events[j].session_id
                /\ (r.source = s.source /\ NoHint(r) /\ ~NoHint(s)
                      /\ s.session_hint = HashOfFile(r))
                       => last.events[i].session_id = last.events[j].session_id

\* A batch of two records of one source and one file, one without a hint
\* and one whose hint is the hash of source and file, and both Events in
\* one session.
C36_Witness ==
    /\ last.op = "normalize"
    /\ Len(last.records) = 2
    /\ last.records[1].session_hint = NoneStr
    /\ last.records[2].session_hint = HashOfFile(last.records[1])
    /\ last.records[1].source = last.records[2].source
    /\ last.events[1].session_id = last.events[2].session_id
    /\ last.events[2].turn_index = 1

---------------------------------------------------------------------------
(* Claims on the checkpoints of the trawler (SpecTrawl).                   *)

\* C37 as stated: every FileCheckpoint the trawler writes has an offset
\* from 0 up to the size recorded in the same checkpoint, also when a
\* writer appends to the file between the stat and the end of the read.
C37_OffsetWithinSizeAsClaimed ==
    \A path \in DOMAIN cstate :
        /\ 0 <= cstate[path].offset
        /\ cstate[path].offset <= cstate[path].size

---------------------------------------------------------------------------
(* Claims on the Events of a rewritten file (SpecTrawl).                   *)

\* C38 as stated: after the tracked file was truncated and written anew,
\* every line the trawler emits from the new content produces its own
\* stored Event, also a line with the text and the line position of a line
\* of the old content: the store inserts as many Events as the call yields
\* records.
C38_RewrittenLineStoredAsClaimed ==
    (last.op = "trawl" /\ last.pre_truncated) =>
        last.inserted = Len(last.records)

---------------------------------------------------------------------------
(* Claims on the counts of the filter pipeline (SpecDaemon).               *)

\* The records of a list that the filters of a source accept, in order.
AcceptedOf(source, records) ==
    SelectSeq(records, LAMBDA record : FilterKeeps(source, record))

\* The counts of a summary add up.
SeenIsIngestedPlusFiltered(summary) ==
    summary.records_seen = summary.records_ingested + summary.records_filtered

\* C40: the filter pipeline hands the daemon the polled records with the
\* rejected ones removed, in their original order, and a dropped count such
\* that kept plus dropped is the number of polled records; and in every
\* summary of the cycle that is not an error summary, records_seen equals
\* records_ingested plus records_filtered.
C40_KeptPlusDropped ==
    [][ /\ (d.pc = "poll" /\ d'.pc \in {"process", "status"}) =>
              LET r    == FileDropPoll(Source, fs, Get(d.state, Source, EmptyMap))
                  kept == AcceptedOf(Source, r.records)
              IN  /\ d'.records = kept
                  /\ Len(d'.records) + d'.dropped = Len(r.records)
                  /\ d'.seen = Len(r.records)
        /\ \A i \in DOMAIN d'.cycle_summary :
              d'.cycle_summary[i].status # "error"
                  => SeenIsIngestedPlusFiltered(d'.cycle_summary[i]) ]_vars

\* A cycle holds the summary of a poll of which one record was kept and
\* one was rejected.
C40_Witness ==
    \E i \in DOMAIN d.cycle_summary :
        /\ d.cycle_summary[i].status = "ingesting"
        /\ d.cycle_summary[i].records_ingested >= 1
        /\ d.cycle_summary[i].records_filtered >= 1
        /\ d.cycle_summary[i].records_seen >= 2

====
